---- MODULE Spec2Model ----
(***************************************************************************)
(* Model of the multi-exchange trading gateway (DinoTap/ai-trading).       *)
(*                                                                         *)
(* One HTTP request is handled at a time: a route action draws a request   *)
(* and the behaviour of the exchange it may talk to, runs the route's      *)
(* middleware chain and controller handler against the exchange adapters,  *)
(* and leaves the response, the adapter invocations and the orders that    *)
(* reached an exchange client in the state.  Finish drops the              *)
(* request-scoped data again.                                              *)
(***************************************************************************)
EXTENDS Integers, Sequences, FiniteSets, TLC

VARIABLES
    pc,         \* "idle": waiting for a request; "done": a response was sent
    req,        \* the request being handled (route, body, headers)
    env,        \* what the exchanges answer during this request
    res,        \* the HTTP response sent
    calls,      \* adapter methods invoked for this request, in order
    submitted,  \* orders handed to an exchange client, in order
    kucoinConfig, \* the apiAuth of the kucoin-node-sdk module, set by kucoin.init
    validated,  \* a call of XTService.validateOrder: its arguments and result
    responses,  \* the responses written for the request, in order
    trace,  \* the remote calls the adapters made for the request, in order
    signed  \* a call of XTService.makeRequest: its arguments and the request built

vars == <<pc, req, env, res, calls, submitted, kucoinConfig, responses, trace, validated, signed>>

-----------------------------------------------------------------------------
(* Bounds of the model.                                                    *)

MaxQty == 1        \* request quantities are drawn from -1 .. MaxQty
MaxPrice == 1      \* request prices are drawn from 0 .. MaxPrice
MaxAmount == 2     \* exchange balances are drawn from 0 .. MaxAmount
MaxTenths == 12    \* validateOrder is given quantities and prices 0.1 .. MaxTenths / 10
MaxProps == 2      \* the query and body objects of makeRequest have 0 .. MaxProps properties

-----------------------------------------------------------------------------
(* JavaScript values.  Every value is a record of one shape so that any    *)
(* two of them can be compared: t is the JS type, s the string, and a     *)
(* number is n / 10^d with d its count of decimal places (n is not a       *)
(* multiple of 10 unless d = 0).                                           *)

Undef == [t |-> "undefined", n |-> 0, s |-> "", d |-> 0]
Null == [t |-> "null", n |-> 0, s |-> "", d |-> 0]
NaN == [t |-> "NaN", n |-> 0, s |-> "", d |-> 0]
Num(i) == [t |-> "number", n |-> i, s |-> "", d |-> 0]
Str(x) == [t |-> "string", n |-> 0, s |-> x, d |-> 0]

\* the number n / 10^d, trailing zeros dropped
RECURSIVE Dec(_, _)
Dec(n, d) ==
    IF d > 0 /\ n % 10 = 0 THEN Dec(n \div 10, d - 1)
    ELSE [t |-> "number", n |-> n, s |-> "", d |-> d]

RECURSIVE Pow10(_)
Pow10(d) == IF d = 0 THEN 1 ELSE 10 * Pow10(d - 1)

IsNum(v) == v.t = "number"
IsStr(v) == v.t = "string"

\* v === undefined || v === null
IsNullish(v) == v.t \in {"undefined", "null"}

\* ToBoolean(v): what `!v`, `v && ...`, `v || ...` test
Truthy(v) ==
    CASE v.t = "number" -> v.n # 0
      [] v.t = "string" -> v.s # ""
      [] OTHER -> FALSE

\* a || b
Or(a, b) == IF Truthy(a) THEN a ELSE b

\* the strings of the model that spell a number, and the number they spell
NumericStrings == {"1", "2"}
StrToInt(x) == IF x = "1" THEN 1 ELSE 2

\* Number(v), as isNaN applies it: "" is 0, null is 0, undefined is NaN
ToNumber(v) ==
    CASE v.t = "number" -> v
      [] v.t = "null" -> Num(0)
      [] v.t = "string" ->
            IF v.s = "" THEN Num(0)
            ELSE IF v.s \in NumericStrings THEN Num(StrToInt(v.s)) ELSE NaN
      [] OTHER -> NaN

\* isNaN(v)
IsNaN(v) == ToNumber(v).t = "NaN"

\* parseFloat(v): parses String(v); "", "null", "undefined" do not parse
ParseFloat(v) ==
    CASE v.t = "number" -> v
      [] v.t = "string" ->
            IF v.s \in NumericStrings THEN Num(StrToInt(v.s)) ELSE NaN
      [] OTHER -> NaN

\* a * b and a + b on numbers, NaN when either side is NaN
Mul(a, b) == IF IsNum(a) /\ IsNum(b) THEN Dec(a.n * b.n, a.d + b.d) ELSE NaN
Add(a, b) ==
    IF IsNum(a) /\ IsNum(b)
    THEN Dec(a.n * Pow10(b.d) + b.n * Pow10(a.d), a.d + b.d)
    ELSE NaN

\* a < b, a <= b, a >= b on numbers: every comparison with NaN is false
Lt(a, b) == IsNum(a) /\ IsNum(b) /\ a.n * Pow10(b.d) < b.n * Pow10(a.d)
Le(a, b) == IsNum(a) /\ IsNum(b) /\ a.n * Pow10(b.d) <= b.n * Pow10(a.d)
Ge(a, b) == IsNum(a) /\ IsNum(b) /\ a.n * Pow10(b.d) >= b.n * Pow10(a.d)

\* String.prototype.toUpperCase / toLowerCase on the strings of the model
UpperOf(x) ==
    CASE x = "limit" -> "LIMIT"
      [] x = "Limit" -> "LIMIT"
      [] x = "market" -> "MARKET"
      [] x = "stop" -> "STOP"
      [] x = "xt" -> "XT"
      [] x = "bybit" -> "BYBIT"
      [] x = "Bybit" -> "BYBIT"
      [] x = "binance" -> "BINANCE"
      [] x = "kucoin" -> "KUCOIN"
      [] x = "bitget" -> "BITGET"
      [] x = "kraken" -> "KRAKEN"
      [] x = "btc_usdt" -> "BTC_USDT"
      [] x = "btc" -> "BTC"
      [] x = "usdt" -> "USDT"
      [] x = "eth" -> "ETH"
      [] OTHER -> x

LowerOf(x) ==
    CASE x = "LIMIT" -> "limit"
      [] x = "Limit" -> "limit"
      [] x = "MARKET" -> "market"
      [] x = "STOP" -> "stop"
      [] x = "XT" -> "xt"
      [] x = "BYBIT" -> "bybit"
      [] x = "Bybit" -> "bybit"
      [] x = "BINANCE" -> "binance"
      [] x = "KUCOIN" -> "kucoin"
      [] x = "BITGET" -> "bitget"
      [] x = "BTC_USDT" -> "btc_usdt"
      [] x = "BTC" -> "btc"
      [] x = "USDT" -> "usdt"
      [] x = "ETH" -> "eth"
      [] OTHER -> x

-----------------------------------------------------------------------------
(* The exchanges.  An outbound call to an exchange ends in one of these    *)
(* ways: "ok" (the exchange's success code), "rejected" (a native          *)
(* non-success code with a message), "rejectedNoMsg" (a native non-success *)
(* code without message text) or "exception" (the HTTP client throws).     *)

Outcomes == {"ok", "rejected", "rejectedNoMsg", "exception"}

Exchanges == <<"xt", "bybit", "binance", "kucoin", "bitget">>
ExchangeSet == {Exchanges[i] : i \in 1..Len(Exchanges)}

\* the result envelope an adapter method returns; thrown marks a call that
\* raised instead of returning
Envelope(ok, err) ==
    [success |-> ok, error |-> err, thrown |-> FALSE, data |-> <<>>]
WithData(ok, data) ==
    [success |-> ok, error |-> Undef, thrown |-> FALSE, data |-> data]

\* what an adapter method did: the envelope it returned, the orders it handed
\* to the exchange client and the remote calls it made, in order
Did(result, orders, remote) ==
    [result |-> result, orders |-> orders, remote |-> remote]

\* an order as it is handed to an exchange client
Order(exchange, side, orderType, quantity, price, creds) ==
    [exchange |-> exchange, side |-> side, orderType |-> orderType,
     quantity |-> quantity, price |-> price, creds |-> creds]

\* the credentials an adapter method was given
Creds(apiKey, secretKey, passphrase) ==
    [apiKey |-> apiKey, secretKey |-> secretKey, passphrase |-> passphrase]

\* default parameter values: `price = null, type = 'LIMIT'` replace undefined
DefaultTo(v, d) == IF v = Undef THEN d ELSE v

-----------------------------------------------------------------------------
(* XT adapter: order validation, balance check, order placement.           *)

\* symbol.split('_')[1] || 'usdt' and symbol.split('_')[0] || 'btc': the
\* fallbacks serve a symbol without '_' (or, for the base, an empty one)
QuoteCurrency(symbol) ==
    CASE symbol = "btc_usdt" -> "usdt"
      [] symbol = "eth_btc" -> "btc"
      [] OTHER -> "usdt"
BaseCurrency(symbol) ==
    CASE symbol = "btc_usdt" -> "btc"
      [] symbol = "eth_btc" -> "eth"
      [] symbol = "" -> "btc"
      [] OTHER -> symbol

\* the symbol metadata getSymbolInfo finds, or found = FALSE when the symbols
\* lookup failed or does not list the symbol (null / undefined)
NoSymbolInfo ==
    [found |-> FALSE, minQty |-> Undef, minNotional |-> Undef,
     basePrecision |-> Undef, pricePrecision |-> Undef]

\* number.toString().split('.')[1]?.length || 0: the digits after the point;
\* a whole number (or NaN) prints without a fractional part
DecimalPlaces(v) == IF IsNum(v) THEN v.d ELSE 0

validateOrder(symbolInfo, quantity, price, type) ==
    IF ~symbolInfo.found
    THEN [valid |-> FALSE, errors |-> <<"Invalid symbol">>]
    ELSE
    LET qty == ParseFloat(quantity) IN
    IF type = Str("LIMIT")
    THEN LET prc == ParseFloat(price) IN
         IF ~Truthy(price) \/ prc = NaN \/ Le(prc, Num(0))
         THEN [valid |-> FALSE,
               errors |-> <<"Valid price is required for LIMIT orders">>]
         ELSE
         LET total == Mul(qty, prc)
             e1 == IF Truthy(symbolInfo.minQty)
                      /\ Lt(qty, ParseFloat(symbolInfo.minQty))
                   THEN <<"Quantity is below minimum">> ELSE <<>>
             e2 == IF Truthy(symbolInfo.minNotional)
                      /\ Lt(total, ParseFloat(symbolInfo.minNotional))
                   THEN <<"Order total is below minimum">> ELSE <<>>
             e3 == IF Truthy(symbolInfo.basePrecision)
                      /\ DecimalPlaces(qty) > symbolInfo.basePrecision.n
                   THEN <<"Quantity precision exceeds maximum">> ELSE <<>>
             e4 == IF Truthy(symbolInfo.pricePrecision)
                      /\ DecimalPlaces(prc) > symbolInfo.pricePrecision.n
                   THEN <<"Price precision exceeds maximum">> ELSE <<>>
             errors == e1 \o e2 \o e3 \o e4
         IN [valid |-> errors = <<>>, errors |-> errors]
    ELSE IF type = Str("MARKET")
    THEN LET errors == IF Truthy(symbolInfo.minNotional)
                          /\ Lt(qty, ParseFloat(symbolInfo.minNotional))
                       THEN <<"Order amount is below minimum">> ELSE <<>>
         IN [valid |-> errors = <<>>, errors |-> errors]
    ELSE [valid |-> TRUE, errors |-> <<>>]

\* errorMap[errorCode] || errorCode: the message code of an XT rejection, or
\* undefined when the response carries none
mapErrorCode(outcome) ==
    IF outcome = "rejected" THEN Str("Insufficient balance") ELSE Undef

\* an entry of an exchange's balance response.  The fields are read per
\* exchange: XT availableAmount / frozenAmount / totalAmount, Bybit
\* walletBalance (total) / locked (frozen) / usdValue / equity, Binance free /
\* locked, KuCoin available / holds / balance (total), Bitget available / frozen
Raw(currency, available, frozen, total, usdValue, equity) ==
    [currency |-> currency, available |-> available, frozen |-> frozen,
     total |-> total, usdValue |-> usdValue, equity |-> equity]

\* XTService.getBalance: GET /v4/balances; rc !== 0 and exceptions fail
XtGetBalance(apiKey, secretKey, b) ==
    CASE ~Truthy(apiKey) \/ ~Truthy(secretKey) ->
            Envelope(FALSE, Str("API Key and Secret Key are required"))
      [] b.outcome = "ok" -> WithData(TRUE, b.raw)
      [] b.outcome = "rejected" -> Envelope(FALSE, Str("exchange message"))
      [] b.outcome = "rejectedNoMsg" -> Envelope(FALSE, Str("Failed to fetch balance"))
      [] OTHER -> Envelope(FALSE, Str("Network Error"))

\* balances.find(b => b.currency.toLowerCase() === currency.toLowerCase())
\* and then balance?.availableAmount || 0
AvailableOf(balances, currency) ==
    LET hits == {i \in 1..Len(balances) :
                    LowerOf(balances[i].currency) = LowerOf(currency)}
    IN IF hits = {} THEN 0
       ELSE balances[CHOOSE i \in hits : \A j \in hits : i <= j].available

\* a balance check that lets the order through when the fetch failed
checkBalanceLenient(currency, requiredAmount, apiKey, secretKey, b) ==
    LET balanceResponse == XtGetBalance(apiKey, secretKey, b) IN
    IF ~balanceResponse.success
    THEN [sufficient |-> TRUE, available |-> Num(0)]
    ELSE LET available == Num(AvailableOf(balanceResponse.data, currency))
             required == ParseFloat(requiredAmount)
         IN [sufficient |-> Ge(available, required), available |-> available]

\* checkBalance: the balance fetch and the comparison
checkBalance(currency, requiredAmount, apiKey, secretKey, b) ==
    LET balanceResponse == XtGetBalance(apiKey, secretKey, b) IN
    IF ~balanceResponse.success
    THEN [sufficient |-> FALSE, available |-> Num(0)]
    ELSE LET available == Num(AvailableOf(balanceResponse.data, currency))
             required == ParseFloat(requiredAmount)
         IN [sufficient |-> Ge(available, required), available |-> available]

\* the response handling shared by all XT calls: rc !== 0 is a failure
XtOrderResult(outcome, side) ==
    CASE outcome = "ok" -> Envelope(TRUE, Undef)
      [] outcome = "exception" -> Envelope(FALSE, Str("Network Error"))
      [] OTHER -> Envelope(FALSE, mapErrorCode(outcome))

\* the orderParams POSTed to /v4/order
XtOrderParams(side, quantity, price, type, creds) ==
    LET upper == UpperOf(type.s) IN
    Order("xt", side, upper,
          IF upper \in {"LIMIT", "MARKET"} THEN quantity ELSE Undef,
          IF upper = "LIMIT" /\ Truthy(price) THEN price ELSE Undef,
          creds)

XtPlaceBuyOrder(symbol, quantity, price0, type0, apiKey, secretKey, e) ==
    LET price == DefaultTo(price0, Null)
        type == DefaultTo(type0, Str("LIMIT"))
        creds == Creds(apiKey, secretKey, Undef)
        symbolInfo == IF e.symbols = "ok" /\ IsStr(symbol)
                      THEN e.symbolInfo ELSE NoSymbolInfo
        validation == validateOrder(symbolInfo, quantity, price, type)
    IN
    IF ~validation.valid
    THEN Did(Envelope(FALSE, Str("Order validation failed")), <<>>, <<"symbols">>)
    ELSE IF ~IsStr(type)
    THEN Did(Envelope(FALSE, Str("type.toUpperCase is not a function")), <<>>,
             <<"symbols">>)
    ELSE
    LET quoteCurrency == QuoteCurrency(symbol.s)
        upper == UpperOf(type.s)
        orderTotal == IF upper = "LIMIT" /\ Truthy(price)
                      THEN Mul(ParseFloat(quantity), ParseFloat(price))
                      ELSE IF upper = "MARKET" THEN ParseFloat(quantity)
                      ELSE Undef
        minReserve == IF LowerOf(quoteCurrency) = "usdt" THEN 1 ELSE 0
        totalRequired == Add(orderTotal, Num(minReserve))
        balanceCheck == checkBalance(quoteCurrency, totalRequired,
                                    apiKey, secretKey, e.balance["xt"])
        fetched == IF Truthy(orderTotal) THEN <<"symbols", "balance">>
                   ELSE <<"symbols">>
    IN
    IF Truthy(orderTotal) /\ ~balanceCheck.sufficient
    THEN Did(Envelope(FALSE, Str("Insufficient balance")), <<>>, fetched)
    ELSE IF upper \in {"LIMIT", "MARKET"} /\ IsNullish(quantity)
    THEN Did(Envelope(FALSE, Str("Cannot read properties of undefined")), <<>>,
             fetched)
    ELSE Did(XtOrderResult(e.order, "buy"),
             <<XtOrderParams("BUY", quantity, price, type, creds)>>,
             Append(fetched, "order"))

XtPlaceSellOrder(symbol, quantity, price0, type0, apiKey, secretKey, e) ==
    LET price == DefaultTo(price0, Null)
        type == DefaultTo(type0, Str("LIMIT"))
        creds == Creds(apiKey, secretKey, Undef)
        symbolInfo == IF e.symbols = "ok" /\ IsStr(symbol)
                      THEN e.symbolInfo ELSE NoSymbolInfo
        validation == validateOrder(symbolInfo, quantity, price, type)
    IN
    IF ~validation.valid
    THEN Did(Envelope(FALSE, Str("Order validation failed")), <<>>, <<"symbols">>)
    ELSE
    LET baseCurrency == BaseCurrency(symbol.s)
        balanceCheck == checkBalance(baseCurrency, quantity,
                                    apiKey, secretKey, e.balance["xt"])
    IN
    IF ~balanceCheck.sufficient
    THEN Did(Envelope(FALSE, Str("Insufficient balance")), <<>>,
             <<"symbols", "balance">>)
    ELSE IF ~IsStr(type)
    THEN Did(Envelope(FALSE, Str("type.toUpperCase is not a function")), <<>>,
             <<"symbols", "balance">>)
    ELSE Did(XtOrderResult(e.order, "sell"),
             <<XtOrderParams("SELL", quantity, price, type, creds)>>,
             <<"symbols", "balance", "order">>)

-----------------------------------------------------------------------------
(* Bybit, Binance, KuCoin and Bitget adapters: order placement.            *)

\* response.retMsg || 'Failed to ...', response.msg || 'Failed to ...',
\* error.message || 'Failed to ...': a failed call always carries a message
\* a failure conversion whose catch block rethrows the network exception
FailureOfRethrowing(outcome) ==
    CASE outcome = "rejected" -> Envelope(FALSE, Str("exchange message"))
      [] outcome = "rejectedNoMsg" -> Envelope(FALSE, Str("Failed to place order"))
      [] OTHER -> [Envelope(FALSE, Str("Network Error")) EXCEPT !.thrown = TRUE]

FailureOf(outcome) ==
    CASE outcome = "rejected" -> Envelope(FALSE, Str("exchange message"))
      [] outcome = "rejectedNoMsg" -> Envelope(FALSE, Str("Failed to place order"))
      [] OTHER -> Envelope(FALSE, Str("Network Error"))

ResultOf(outcome) ==
    IF outcome = "ok" THEN Envelope(TRUE, Undef) ELSE FailureOf(outcome)

BybitPlaceOrder(side, symbol, quantity, price0, type0, apiKey, secretKey, e) ==
    LET price == DefaultTo(price0, Null)
        type == DefaultTo(type0, Str("LIMIT"))
        creds == Creds(apiKey, secretKey, Undef)
        upper == IF Truthy(type) THEN UpperOf(type.s) ELSE ""
        orderType == IF upper = "MARKET" THEN "Market" ELSE "Limit"
    IN
    IF IsNullish(quantity)
    THEN Did(Envelope(FALSE, Str("Cannot read properties of undefined")), <<>>, <<>>)
    ELSE Did(ResultOf(e.order),
             <<Order("bybit", side, orderType, quantity,
                     IF upper = "LIMIT" /\ Truthy(price) THEN price ELSE Undef,
                     creds)>>,
             <<"order">>)

\* binance-api-node rejects the promise on every failure, so each failure is
\* handled by the catch block
BinancePlaceOrder(side, symbol, quantity, price0, type0, apiKey, secretKey, e) ==
    LET price == DefaultTo(price0, Null)
        type == DefaultTo(type0, Str("LIMIT"))
        creds == Creds(apiKey, secretKey, Undef)
    IN
    IF ~IsStr(symbol) \/ ~IsStr(type) \/ IsNullish(quantity)
    THEN Did(Envelope(FALSE, Str("Cannot read properties of undefined")), <<>>, <<>>)
    ELSE IF UpperOf(type.s) = "LIMIT" /\ ~Truthy(price)
    THEN Did(Envelope(FALSE, Str("Price is required for LIMIT orders")), <<>>, <<>>)
    ELSE Did(IF e.order = "ok" THEN Envelope(TRUE, Undef)
             ELSE Envelope(FALSE, Str("exchange message")),
             <<Order("binance", side, UpperOf(type.s), quantity,
                     IF UpperOf(type.s) = "LIMIT" THEN price ELSE Undef,
                     creds)>>,
             <<"order">>)

KucoinPlaceOrder(side, symbol, quantity, price0, type0, apiKey, secretKey, passphrase, e) ==
    LET price == DefaultTo(price0, Null)
        type == DefaultTo(type0, Str("LIMIT"))
        creds == Creds(apiKey, secretKey, passphrase)
    IN
    IF ~IsStr(symbol) \/ ~IsStr(type)
    THEN Did(Envelope(FALSE, Str("Cannot read properties of undefined")), <<>>, <<>>)
    ELSE
    LET upper == UpperOf(type.s) IN
    IF upper = "LIMIT" /\ ~Truthy(price)
    THEN Did(Envelope(FALSE, Str("Price is required for LIMIT orders")), <<>>, <<>>)
    ELSE IF upper \in {"LIMIT", "MARKET"} /\ IsNullish(quantity)
    THEN Did(Envelope(FALSE, Str("Cannot read properties of undefined")), <<>>, <<>>)
    ELSE Did(ResultOf(e.order),
             <<Order("kucoin", side, LowerOf(type.s),
                     IF upper \in {"LIMIT", "MARKET"} THEN quantity ELSE Undef,
                     IF upper = "LIMIT" THEN price ELSE Undef,
                     creds)>>,
             <<"order">>)

BitgetPlaceOrder(side, symbol, quantity, price0, type0, apiKey, secretKey, passphrase, e) ==
    LET price == DefaultTo(price0, Null)
        type == DefaultTo(type0, Str("LIMIT"))
        creds == Creds(apiKey, secretKey, passphrase)
    IN
    IF ~IsStr(symbol) \/ ~IsStr(type) \/ IsNullish(quantity)
    THEN Did(Envelope(FALSE, Str("Cannot read properties of undefined")), <<>>, <<>>)
    ELSE IF UpperOf(type.s) = "LIMIT" /\ ~Truthy(price)
    THEN Did(Envelope(FALSE, Str("Price is required for LIMIT orders")), <<>>, <<>>)
    ELSE Did(ResultOf(e.order),
             <<Order("bitget", side, LowerOf(type.s), quantity,
                     IF UpperOf(type.s) = "LIMIT" THEN price ELSE Undef,
                     creds)>>,
             <<"order">>)

-----------------------------------------------------------------------------
(* getBalance and getPortfolio of the five adapters.  b is the exchange's  *)
(* answer to the balance call: its outcome and the raw entries.            *)

\* an entry of a normalized portfolio; exchange is "" where the adapter sets
\* no exchange field (XT)
Asset(currency, available, frozen, total, usdValue, equity, exchange) ==
    [currency |-> currency, available |-> available, frozen |-> frozen,
     total |-> total, usdValue |-> usdValue, equity |-> equity,
     exchange |-> exchange]

PositiveTotal(asset) == asset.total > 0

\* the other adapters' getBalance: a native non-success code or an exception
\* fails with a message
ServiceGetBalance(b) ==
    IF b.outcome = "ok" THEN WithData(TRUE, b.raw)
    ELSE [FailureOf(b.outcome) EXCEPT
             !.error = IF b.outcome = "rejectedNoMsg"
                       THEN Str("Failed to fetch balance") ELSE @]

\* parseFloat(balance.totalAmount) || (available + frozen)
XtAsset(r) ==
    Asset(r.currency, r.available, r.frozen,
          IF r.total # 0 THEN r.total ELSE r.available + r.frozen, 0, 0, "")

XtGetPortfolio(apiKey, secretKey, b) ==
    LET balanceResponse == XtGetBalance(apiKey, secretKey, b) IN
    IF ~balanceResponse.success THEN balanceResponse
    ELSE LET balances == balanceResponse.data IN
         WithData(TRUE, SelectSeq([i \in 1..Len(balances) |-> XtAsset(balances[i])],
                                  PositiveTotal))

BybitAsset(r) ==
    Asset(r.currency, r.total - r.frozen, r.frozen, r.total,
          r.usdValue, r.equity, "bybit")

BybitKept(asset) == asset.total > 0 \/ asset.usdValue > 0 \/ asset.equity > 0

BybitGetPortfolio(apiKey, secretKey, b) ==
    LET balanceResponse == ServiceGetBalance(b) IN
    IF ~balanceResponse.success THEN balanceResponse
    ELSE LET balances == balanceResponse.data IN
         WithData(TRUE, SelectSeq([i \in 1..Len(balances) |-> BybitAsset(balances[i])],
                                  BybitKept))

\* accountInfo.balances.filter(b => parseFloat(b.free) > 0 || parseFloat(b.locked) > 0);
\* binance-api-node throws on every failure
BinanceNonZero(r) == r.available > 0 \/ r.frozen > 0

BinanceGetBalance(apiKey, secretKey, b) ==
    IF b.outcome = "ok" THEN WithData(TRUE, SelectSeq(b.raw, BinanceNonZero))
    ELSE Envelope(FALSE, Str("exchange message"))

BinanceAsset(r) ==
    Asset(r.currency, r.available, r.frozen, r.available + r.frozen,
          r.usdValue, 0, "binance")

BinanceGetPortfolio(apiKey, secretKey, b) ==
    LET balanceResponse == BinanceGetBalance(apiKey, secretKey, b) IN
    IF ~balanceResponse.success THEN balanceResponse
    ELSE LET balances == balanceResponse.data IN
         WithData(TRUE, SelectSeq([i \in 1..Len(balances) |-> BinanceAsset(balances[i])],
                                  PositiveTotal))

KucoinAsset(r) ==
    Asset(r.currency, r.available, r.frozen, r.total, 0, 0, "kucoin")

KucoinGetPortfolio(apiKey, secretKey, passphrase, b) ==
    LET balanceResponse == ServiceGetBalance(b) IN
    IF ~balanceResponse.success THEN balanceResponse
    ELSE LET balances == balanceResponse.data IN
         WithData(TRUE, SelectSeq([i \in 1..Len(balances) |-> KucoinAsset(balances[i])],
                                  PositiveTotal))

BitgetAsset(r) ==
    Asset(r.currency, r.available, r.frozen, r.available + r.frozen,
          r.usdValue, 0, "bitget")

BitgetGetPortfolio(apiKey, secretKey, passphrase, b) ==
    LET balanceResponse == ServiceGetBalance(b) IN
    IF ~balanceResponse.success THEN balanceResponse
    ELSE LET balances == balanceResponse.data IN
         WithData(TRUE, SelectSeq([i \in 1..Len(balances) |-> BitgetAsset(balances[i])],
                                  PositiveTotal))

\* the adapter of an exchange name, as the combined endpoints call it
GetPortfolioOf(exchange, c, b) ==
    CASE exchange = "xt" -> XtGetPortfolio(c.apiKey, c.secretKey, b)
      [] exchange = "bybit" -> BybitGetPortfolio(c.apiKey, c.secretKey, b)
      [] exchange = "binance" -> BinanceGetPortfolio(c.apiKey, c.secretKey, b)
      [] exchange = "kucoin" ->
            KucoinGetPortfolio(c.apiKey, c.secretKey, c.passphrase, b)
      [] OTHER -> BitgetGetPortfolio(c.apiKey, c.secretKey, c.passphrase, b)

-----------------------------------------------------------------------------
(* Requests, responses and the record of what a handler did.               *)

\* an adapter method invocation by a controller
Call(service, method, symbol, quantity, price, type, creds) ==
    [service |-> service, method |-> method, symbol |-> symbol,
     quantity |-> quantity, price |-> price, type |-> type, creds |-> creds]

\* res.status(status).json({success, error, ...}); by names the function that
\* sent it
Response(status, success, error, by) ==
    [status |-> status, success |-> success, error |-> error, by |-> by,
     requiredHeaders |-> {}, errors |-> <<>>, combinedPortfolio |-> <<>>,
     totalAssets |-> 0, exchangeData |-> <<>>]

NoResponse == Response(0, FALSE, Undef, "")

\* what handling a request did: the response, the adapter invocations, the
\* orders handed to exchange clients, the remote calls; a handler path ends
\* with the one res.json it reaches
Handled(response, invoked, orders, remote) ==
    [res |-> response, calls |-> invoked, orders |-> orders, remote |-> remote,
     responses |-> <<response>>]

Answer(status, error, by) ==
    Handled(Response(status, FALSE, Str(error), by), <<>>, <<>>, <<>>)

\* a tail whose 400 branch has no return and runs on into the success answer
ReplyWithoutReturn(did, invoked, ok, by) ==
    LET failure == Response(400, FALSE, did.result.error, by)
        success == Response(ok, TRUE, Undef, by)
    IN IF did.result.thrown
       THEN Handled(Response(500, FALSE, did.result.error, by),
                    <<invoked>>, did.orders, did.remote)
       ELSE IF ~did.result.success
       THEN [Handled(failure, <<invoked>>, did.orders, did.remote)
                EXCEPT !.responses = <<failure, success>>]
       ELSE Handled(success, <<invoked>>, did.orders, did.remote)

\* the controller's tail after an adapter call: the catch block answers 500,
\* a failure envelope is passed through with 400, success answers `ok`
Reply(did, invoked, ok, by) ==
    Handled(IF did.result.thrown THEN Response(500, FALSE, did.result.error, by)
            ELSE IF ~did.result.success
                 THEN Response(400, FALSE, did.result.error, by)
                 ELSE Response(ok, TRUE, Undef, by),
            <<invoked>>, did.orders, did.remote)

-----------------------------------------------------------------------------
(* Middleware (src/middleware/validation.js).                              *)

\* validateTradeRequest: "" when the request passes, else the error sent
validateTradeRequest(body) ==
    IF ~Truthy(body.symbol) \/ ~IsStr(body.symbol)
    THEN "Symbol is required and must be a string"
    ELSE IF ~Truthy(body.quantity) \/ IsNaN(body.quantity)
            \/ Le(ParseFloat(body.quantity), Num(0))
    THEN "Quantity is required and must be a positive number"
    ELSE ""

ValidTypes == {"LIMIT", "MARKET"}

\* validateOrderType: "" when the request passes, else the error sent
validateOrderType(body) ==
    IF Truthy(body.type) /\ UpperOf(body.type.s) \notin ValidTypes
    THEN "Invalid order type. Must be one of: LIMIT, MARKET"
    ELSE ""

-----------------------------------------------------------------------------
(* Exchange selection (trading.controller.js).                             *)

validExchanges == {"xt", "bybit", "binance", "kucoin", "bitget"}

\* an exchange check that lets every value through
validateExchangeAny(exchange) == TRUE

\* validateExchange(exchange).valid
validateExchange(exchange) ==
    Truthy(exchange) /\ LowerOf(exchange.s) \in validExchanges

\* getService: switch (exchange?.toLowerCase()) with default xtService
getService(exchange) ==
    LET lower == IF IsNullish(exchange) THEN "" ELSE LowerOf(exchange.s) IN
    CASE lower = "bybit" -> "bybit"
      [] lower = "binance" -> "binance"
      [] lower = "kucoin" -> "kucoin"
      [] lower = "bitget" -> "bitget"
      [] OTHER -> "xt"

\* service.placeBuyOrder / service.placeSellOrder of the selected adapter
PlaceOrder(service, method, symbol, quantity, price, type, apiKey, secretKey, passphrase, e) ==
    CASE service = "xt" /\ method = "placeBuyOrder" ->
            XtPlaceBuyOrder(symbol, quantity, price, type, apiKey, secretKey, e)
      [] service = "xt" /\ method = "placeSellOrder" ->
            XtPlaceSellOrder(symbol, quantity, price, type, apiKey, secretKey, e)
      [] service = "bybit" /\ method = "placeBuyOrder" ->
            BybitPlaceOrder("Buy", symbol, quantity, price, type, apiKey, secretKey, e)
      [] service = "bybit" /\ method = "placeSellOrder" ->
            BybitPlaceOrder("Sell", symbol, quantity, price, type, apiKey, secretKey, e)
      [] service = "binance" /\ method = "placeBuyOrder" ->
            BinancePlaceOrder("BUY", symbol, quantity, price, type, apiKey, secretKey, e)
      [] service = "binance" /\ method = "placeSellOrder" ->
            BinancePlaceOrder("SELL", symbol, quantity, price, type, apiKey, secretKey, e)
      [] service = "kucoin" /\ method = "placeBuyOrder" ->
            KucoinPlaceOrder("buy", symbol, quantity, price, type,
                             apiKey, secretKey, passphrase, e)
      [] service = "kucoin" /\ method = "placeSellOrder" ->
            KucoinPlaceOrder("sell", symbol, quantity, price, type,
                             apiKey, secretKey, passphrase, e)
      [] service = "bitget" /\ method = "placeBuyOrder" ->
            BitgetPlaceOrder("buy", symbol, quantity, price, type,
                             apiKey, secretKey, passphrase, e)
      [] OTHER ->
            BitgetPlaceOrder("sell", symbol, quantity, price, type,
                             apiKey, secretKey, passphrase, e)

-----------------------------------------------------------------------------
(* Place-order handlers.                                                   *)

\* a price rule that lets a MARKET order carry a price
PriceRuleLimitOnly(type, price) ==
    IF UpperOf(Or(type, Str("LIMIT")).s) = "LIMIT" /\ IsNullish(price)
    THEN "Price is required for LIMIT orders"
    ELSE ""

\* the price rule every place-order handler starts with: "" when the request
\* passes, else the error sent
PriceRuleError(type, price) ==
    LET normalizedType == UpperOf(Or(type, Str("LIMIT")).s) IN
    IF normalizedType = "LIMIT" /\ IsNullish(price)
    THEN "Price is required for LIMIT orders"
    ELSE IF normalizedType = "MARKET" /\ ~IsNullish(price)
    THEN "Do not send price for MARKET orders"
    ELSE ""

\* stands for the 401 message, whose wording names the headers of the handler
CredentialsRequired == "API Key and Secret Key are required"

\* buyOrder / sellOrder of trading.controller.js
GenericOrder(method, by, r, e) ==
    LET type == DefaultTo(r.type, Str("LIMIT"))
        exchange == DefaultTo(r.exchange, Str("xt"))
        apiKey == Or(r.hApiKey, r.bApiKey)
        secretKey == Or(r.hSecretKey, r.bSecretKey)
    IN
    IF PriceRuleError(type, r.price) # ""
    THEN Answer(400, PriceRuleError(type, r.price), by)
    ELSE IF ~validateExchange(exchange)
    THEN Answer(400, "Invalid exchange", by)
    ELSE IF ~Truthy(apiKey) \/ ~Truthy(secretKey)
    THEN Answer(401, CredentialsRequired, by)
    ELSE
    LET service == getService(exchange)
        did == PlaceOrder(service, method, r.symbol, r.quantity, r.price, type,
                          apiKey, secretKey, Undef, e)
    IN Reply(did,
             Call(service, method, r.symbol, r.quantity, r.price, type,
                  Creds(apiKey, secretKey, Undef)),
             201, by)

buyOrder(r, e) == GenericOrder("placeBuyOrder", "buyOrder", r, e)
sellOrder(r, e) == GenericOrder("placeSellOrder", "sellOrder", r, e)

\* router.post('/buy', validateTradeRequest, validateOrderType, buyOrder)
\* with `handled` what the handler does once next() reaches it
Chain(r, handled) ==
    IF validateTradeRequest(r) # ""
    THEN Answer(400, validateTradeRequest(r), "validateTradeRequest")
    ELSE IF validateOrderType(r) # ""
    THEN Answer(400, validateOrderType(r), "validateOrderType")
    ELSE handled

\* a per-exchange handler that asks for credentials before it looks at the
\* price
ExchangeOrderCredentialsFirst(service, method, by, r, e) ==
    IF ~Truthy(r.hApiKey) \/ ~Truthy(r.hSecretKey)
    THEN Answer(401, CredentialsRequired, by)
    ELSE IF PriceRuleError(DefaultTo(r.type, Str("LIMIT")), r.price) # ""
    THEN Answer(400, PriceRuleError(DefaultTo(r.type, Str("LIMIT")), r.price), by)
    ELSE Answer(400, "Symbol and quantity are required", by)

\* xtBuyOrder ... kucoinSellOrder of unified.controller.js: the handlers differ
\* in the adapter, the method and whether a passphrase is read
ExchangeOrder(service, method, by, r, e) ==
    LET type == DefaultTo(r.type, Str("LIMIT"))
        apiKey == r.hApiKey
        secretKey == r.hSecretKey
        passphrase == IF service = "kucoin" THEN r.hPassphrase ELSE Undef
    IN
    IF PriceRuleError(type, r.price) # ""
    THEN Answer(400, PriceRuleError(type, r.price), by)
    ELSE IF ~Truthy(apiKey) \/ ~Truthy(secretKey)
            \/ (service = "kucoin" /\ ~Truthy(passphrase))
    THEN Answer(401, CredentialsRequired, by)
    ELSE IF ~Truthy(r.symbol) \/ ~Truthy(r.quantity)
    THEN Answer(400, "Symbol and quantity are required", by)
    ELSE
    LET did == PlaceOrder(service, method, r.symbol, r.quantity, r.price, type,
                          apiKey, secretKey, passphrase, e)
    IN Reply(did,
             Call(service, method, r.symbol, r.quantity, r.price, type,
                  Creds(apiKey, secretKey, passphrase)),
             201, by)

xtBuyOrder(r, e) == ExchangeOrder("xt", "placeBuyOrder", "xtBuyOrder", r, e)
xtSellOrder(r, e) == ExchangeOrder("xt", "placeSellOrder", "xtSellOrder", r, e)
bybitBuyOrder(r, e) == ExchangeOrder("bybit", "placeBuyOrder", "bybitBuyOrder", r, e)
bybitSellOrder(r, e) == ExchangeOrder("bybit", "placeSellOrder", "bybitSellOrder", r, e)
binanceBuyOrder(r, e) ==
    ExchangeOrder("binance", "placeBuyOrder", "binanceBuyOrder", r, e)
binanceSellOrder(r, e) ==
    ExchangeOrder("binance", "placeSellOrder", "binanceSellOrder", r, e)
kucoinBuyOrder(r, e) == ExchangeOrder("kucoin", "placeBuyOrder", "kucoinBuyOrder", r, e)
kucoinSellOrder(r, e) ==
    ExchangeOrder("kucoin", "placeSellOrder", "kucoinSellOrder", r, e)

-----------------------------------------------------------------------------
(* The other operations of the generic router.                             *)

\* the methods an adapter class defines (BybitService has no order history,
\* ticker, symbols or depth)
Implemented(service, method) ==
    service # "bybit"
    \/ method \in {"getBalance", "getPortfolio", "placeBuyOrder",
                   "placeSellOrder", "cancelOrder"}

\* cancelOrder, getOrderHistory, getTicker, getSymbols, getDepth: one remote
\* call, a failure always carries a message
OtherResult(service, outcome) ==
    CASE outcome = "ok" -> Envelope(TRUE, Undef)
      [] outcome \in {"rejected", "exception"} \/ service = "binance" ->
            Envelope(FALSE, Str("exchange message"))
      [] OTHER -> Envelope(FALSE, Str("Failed to complete the call"))

\* service[method](..., apiKey, secretKey) as the generic handlers call it
AdapterCall(service, method, apiKey, secretKey, passphrase, e) ==
    CASE method = "getBalance" ->
            Did(CASE service = "xt" -> XtGetBalance(apiKey, secretKey, e.balance["xt"])
                  [] service = "binance" ->
                        BinanceGetBalance(apiKey, secretKey, e.balance["binance"])
                  [] OTHER -> ServiceGetBalance(e.balance[service]),
                <<>>, <<"balance">>)
      [] method = "getPortfolio" ->
            Did(GetPortfolioOf(service, Creds(apiKey, secretKey, passphrase),
                               e.balance[service]),
                <<>>, <<"balance">>)
      [] OTHER -> Did(OtherResult(service, e.outcome), <<>>, <<"outcome">>)

\* a generic handler that goes to the adapter without asking for credentials
GenericCallUnchecked(method, by, exchange, required, r, e) ==
    IF ~validateExchange(exchange)
    THEN Answer(400, "Invalid exchange", by)
    ELSE Reply(AdapterCall(getService(exchange), method,
                           Or(r.hApiKey, r.bApiKey), Or(r.hSecretKey, r.bSecretKey),
                           Undef, e),
               Call(getService(exchange), method, r.symbol, Undef, Undef, Undef,
                    Creds(Or(r.hApiKey, r.bApiKey), Or(r.hSecretKey, r.bSecretKey),
                          Undef)),
               200, by)

\* the handlers of trading.controller.js other than buyOrder / sellOrder;
\* exchange is the value the handler extracted, required the path parameter
\* it insists on (orderId, symbol) or a truthy value when it has none
GenericCall(method, by, exchange, required, r, e) ==
    LET apiKey == Or(r.hApiKey, r.bApiKey)
        secretKey == Or(r.hSecretKey, r.bSecretKey)
    IN
    IF ~Truthy(required)
    THEN Answer(400, "Symbol or order id is required", by)
    ELSE IF ~validateExchange(exchange)
    THEN Answer(400, "Invalid exchange", by)
    ELSE IF ~Truthy(apiKey) \/ ~Truthy(secretKey)
    THEN Answer(401, CredentialsRequired, by)
    ELSE
    LET service == getService(exchange) IN
    IF ~Implemented(service, method)
    THEN IF method \in {"getTicker", "getSymbols", "getDepth"}
         THEN Answer(500, "Not supported for this exchange", by)
         ELSE Answer(500, "service.getOrderHistory is not a function", by)
    ELSE Reply(AdapterCall(service, method, apiKey, secretKey, Undef, e),
               Call(service, method, r.symbol, Undef, Undef, Undef,
                    Creds(apiKey, secretKey, Undef)),
               200, by)

\* const exchange = req.query.exchange || req.body.exchange || 'xt'
getBalance(r, e) ==
    GenericCall("getBalance", "getBalance",
                Or(Or(r.exchange, r.bExchange), Str("xt")), Str("-"), r, e)
getPortfolio(r, e) ==
    GenericCall("getPortfolio", "getPortfolio",
                Or(Or(r.exchange, r.bExchange), Str("xt")), Str("-"), r, e)
\* const { exchange = 'xt' } = req.body / req.query
cancelOrder(r, e) ==
    GenericCall("cancelOrder", "cancelOrder",
                DefaultTo(r.exchange, Str("xt")), r.orderId, r, e)
getOrderHistory(r, e) ==
    GenericCall("getOrderHistory", "getOrderHistory",
                DefaultTo(r.exchange, Str("xt")), Str("-"), r, e)
getTicker(r, e) ==
    GenericCall("getTicker", "getTicker",
                DefaultTo(r.exchange, Str("xt")), r.symbol, r, e)
getSymbols(r, e) ==
    GenericCall("getSymbols", "getSymbols",
                DefaultTo(r.exchange, Str("xt")), Str("-"), r, e)
getDepth(r, e) ==
    GenericCall("getDepth", "getDepth",
                DefaultTo(r.exchange, Str("xt")), r.symbol, r, e)

\* getXtBalance, getBybitBalance, getBinanceBalance, getKucoinBalance of
\* unified.controller.js
ExchangeBalance(service, by, r, e) ==
    LET passphrase == IF service = "kucoin" THEN r.hPassphrase ELSE Undef IN
    IF ~Truthy(r.hApiKey) \/ ~Truthy(r.hSecretKey)
       \/ (service = "kucoin" /\ ~Truthy(passphrase))
    THEN Answer(401, CredentialsRequired, by)
    ELSE Reply(AdapterCall(service, "getPortfolio",
                           r.hApiKey, r.hSecretKey, passphrase, e),
               Call(service, "getPortfolio", Undef, Undef, Undef, Undef,
                    Creds(r.hApiKey, r.hSecretKey, passphrase)),
               200, by)

getXtBalance(r, e) == ExchangeBalance("xt", "getXtBalance", r, e)
getBybitBalance(r, e) == ExchangeBalance("bybit", "getBybitBalance", r, e)
getBinanceBalance(r, e) == ExchangeBalance("binance", "getBinanceBalance", r, e)
getKucoinBalance(r, e) == ExchangeBalance("kucoin", "getKucoinBalance", r, e)

-----------------------------------------------------------------------------
(* The combined endpoints: getCombinedPortfolio (trading.controller.js)    *)
(* and getUnifiedBalance (unified.controller.js, in its two-exchange and   *)
(* its four-exchange version).                                             *)

NeedsPassphrase(exchange) == exchange \in {"kucoin", "bitget"}

\* a credential test that is content with the API key
SuppliedKeyOnly(exchange, c) == Truthy(c.apiKey)

\* `if (apiKey && secretKey)`, with `&& passphrase` for KuCoin and Bitget
Supplied(exchange, c) ==
    /\ Truthy(c.apiKey)
    /\ Truthy(c.secretKey)
    /\ (NeedsPassphrase(exchange) => Truthy(c.passphrase))

\* one entry of results / errors
Result(exchange, portfolio) == [exchange |-> exchange, portfolio |-> portfolio]
Failure(exchange, error) == [exchange |-> exchange, error |-> error]

\* the per-exchange blocks, in the order of the list: calls are the adapter
\* invocations made
\* a fetch that gives up at the first exchange that fails
RECURSIVE FetchUntilFailure(_, _, _, _)
FetchUntilFailure(list, c, e, acc) ==
    IF list = <<>> THEN acc
    ELSE
    LET exchange == Head(list) IN
    IF ~Supplied(exchange, c[exchange]) THEN FetchUntilFailure(Tail(list), c, e, acc)
    ELSE
    LET result == GetPortfolioOf(exchange, c[exchange], e.balance[exchange])
        invoked == Call(exchange, "getPortfolio", Undef, Undef, Undef, Undef,
                        c[exchange])
    IN IF result.success
       THEN FetchUntilFailure(Tail(list), c, e,
                [acc EXCEPT !.results = Append(@, Result(exchange, result.data)),
                            !.calls = Append(@, invoked)])
       ELSE [acc EXCEPT !.errors = Append(@, Failure(exchange, result.error)),
                        !.calls = Append(@, invoked)]

RECURSIVE Fetch(_, _, _, _)
Fetch(list, c, e, acc) ==
    IF list = <<>> THEN acc
    ELSE
    LET exchange == Head(list) IN
    IF ~Supplied(exchange, c[exchange]) THEN Fetch(Tail(list), c, e, acc)
    ELSE
    LET result == GetPortfolioOf(exchange, c[exchange], e.balance[exchange])
        invoked == Call(exchange, "getPortfolio", Undef, Undef, Undef, Undef,
                        c[exchange])
    IN Fetch(Tail(list), c, e,
             [results |-> IF result.success
                          THEN Append(acc.results, Result(exchange, result.data))
                          ELSE acc.results,
              errors |-> IF result.success THEN acc.errors
                         ELSE Append(acc.errors, Failure(exchange, result.error)),
              calls |-> Append(acc.calls, invoked)])

\* a find that compares the currency codes as they are written
FindExact(combined, currency) ==
    LET hits == {i \in 1..Len(combined) : combined[i].currency = currency}
    IN IF hits = {} THEN 0
       ELSE CHOOSE i \in hits : \A j \in hits : i <= j

\* combinedPortfolio.find(item => item.currency.toLowerCase() === ...):
\* the index of the first match, 0 when there is none
Find(combined, currency) ==
    LET hits == {i \in 1..Len(combined) :
                    LowerOf(combined[i].currency) = LowerOf(currency)}
    IN IF hits = {} THEN 0
       ELSE CHOOSE i \in hits : \A j \in hits : i <= j

\* an entry that is the adapter's asset object itself, not a copy of it
EntryShared(asset, exchange) ==
    [currency |-> asset.currency, available |-> asset.available,
     frozen |-> asset.frozen, total |-> asset.total,
     usdValue |-> asset.usdValue, equity |-> asset.equity,
     exchange |-> asset.exchange, exchanges |-> <<exchange>>, shared |-> TRUE]

\* {...asset, exchanges: [result.exchange]}: a new object, so what is later
\* added to it is not written to the asset of the exchange's result
Entry(asset, exchange) ==
    [currency |-> asset.currency, available |-> asset.available,
     frozen |-> asset.frozen, total |-> asset.total,
     usdValue |-> asset.usdValue, equity |-> asset.equity,
     exchange |-> asset.exchange, exchanges |-> <<exchange>>, shared |-> FALSE]

\* a merge that leaves the frozen amount of the first holder in place
RECURSIVE MergeAssetsTotalOnly(_, _, _)
MergeAssetsTotalOnly(combined, portfolio, exchange) ==
    IF portfolio = <<>> THEN combined
    ELSE
    LET asset == Head(portfolio)
        i == Find(combined, asset.currency)
    IN IF i # 0
       THEN MergeAssetsTotalOnly(
                [combined EXCEPT
                    ![i] = [@ EXCEPT !.total = @ + asset.total,
                                     !.available = @ + asset.available,
                                     !.exchanges = Append(@, exchange)]],
                Tail(portfolio), exchange)
       ELSE MergeAssetsTotalOnly(Append(combined, Entry(asset, exchange)),
                                 Tail(portfolio), exchange)

\* result.data.portfolio.forEach(asset => ...)
RECURSIVE MergeAssets(_, _, _)
MergeAssets(combined, portfolio, exchange) ==
    IF portfolio = <<>> THEN combined
    ELSE
    LET asset == Head(portfolio)
        i == Find(combined, asset.currency)
    IN IF i # 0
       THEN MergeAssets(
                [combined EXCEPT
                    ![i] = [@ EXCEPT !.total = @ + asset.total,
                                     !.available = @ + asset.available,
                                     !.frozen = @ + asset.frozen,
                                     !.exchanges = Append(@, exchange)]],
                Tail(portfolio), exchange)
       ELSE MergeAssets(Append(combined, Entry(asset, exchange)),
                        Tail(portfolio), exchange)

\* results.forEach(result => ...)
RECURSIVE Combine(_, _)
Combine(combined, results) ==
    IF results = <<>> THEN combined
    ELSE Combine(MergeAssets(combined, Head(results).portfolio,
                             Head(results).exchange),
                 Tail(results))

\* exchangeData[result.exchange] = result.data, as it is when res.json
\* serializes it after the loop: an asset object that is also an entry of
\* combinedPortfolio carries the amounts the loop added to that entry
exchangeData(results, combinedPortfolio) ==
    [i \in 1..Len(results) |->
        Result(results[i].exchange,
               [k \in 1..Len(results[i].portfolio) |->
                   LET asset == results[i].portfolio[k]
                       first == \A j \in 1..(k - 1) :
                                   LowerOf(results[i].portfolio[j].currency)
                                       # LowerOf(asset.currency)
                       same == {m \in 1..Len(combinedPortfolio) :
                                   /\ combinedPortfolio[m].shared
                                   /\ combinedPortfolio[m].exchanges[1] = results[i].exchange
                                   /\ LowerOf(combinedPortfolio[m].currency)
                                          = LowerOf(asset.currency)}
                   IN IF first /\ same # {}
                      THEN LET item == combinedPortfolio[CHOOSE m \in same : TRUE]
                           IN [asset EXCEPT !.total = item.total,
                                            !.available = item.available,
                                            !.frozen = item.frozen]
                      ELSE asset])]

\* a combined handler that gives up as soon as one exchange fails
CombinedHandlerAllOrNothing(list, headers, by, r, e) ==
    LET got == Fetch(list, r.combined, e,
                     [results |-> <<>>, errors |-> <<>>, calls |-> <<>>])
        combinedPortfolio == Combine(<<>>, got.results)
    IN
    IF Len(got.results) = 0 \/ Len(got.errors) > 0
    THEN Handled([Response(400, FALSE,
                           Str("No valid exchange credentials provided"), by)
                     EXCEPT !.errors = got.errors,
                            !.requiredHeaders = headers],
                 got.calls, <<>>,
                 IF got.calls = <<>> THEN <<>> ELSE <<"balance">>)
    ELSE Handled([Response(200, TRUE, Undef, by)
                     EXCEPT !.combinedPortfolio = combinedPortfolio,
                            !.totalAssets = Len(combinedPortfolio),
                            !.exchangeData = got.results],
                 got.calls, <<>>, <<"balance">>)

\* a combined handler over its list of exchanges
CombinedHandler(list, headers, by, r, e) ==
    LET got == Fetch(list, r.combined, e,
                     [results |-> <<>>, errors |-> <<>>, calls |-> <<>>])
        remote == IF got.calls = <<>> THEN <<>> ELSE <<"balance">>
    IN
    IF Len(got.results) = 0
    THEN Handled([Response(400, FALSE,
                           Str("No valid exchange credentials provided"), by)
                     EXCEPT !.errors = got.errors,
                            !.requiredHeaders = headers],
                 got.calls, <<>>, remote)
    ELSE
    LET combinedPortfolio == Combine(<<>>, got.results) IN
    Handled([Response(200, TRUE, Undef, by)
                EXCEPT !.errors = got.errors,
                       !.combinedPortfolio = combinedPortfolio,
                       !.totalAssets = Len(combinedPortfolio),
                       !.exchangeData = exchangeData(got.results, combinedPortfolio)],
            got.calls, <<>>, remote)

getCombinedPortfolio(r, e) ==
    CombinedHandler(Exchanges,
                    {"x-xt-api-key", "x-xt-secret-key", "x-bybit-api-key",
                     "x-bybit-secret-key", "x-binance-api-key",
                     "x-binance-secret-key", "x-kucoin-api-key",
                     "x-kucoin-secret-key", "x-kucoin-passphrase",
                     "x-bitget-api-key", "x-bitget-secret-key",
                     "x-bitget-passphrase"},
                    "getCombinedPortfolio", r, e)

\* the four-exchange version
getUnifiedBalance(r, e) ==
    CombinedHandler(<<"xt", "bybit", "binance", "kucoin">>,
                    {"x-xt-api-key", "x-xt-secret-key", "x-bybit-api-key",
                     "x-bybit-secret-key", "x-binance-api-key",
                     "x-binance-secret-key", "x-kucoin-api-key",
                     "x-kucoin-secret-key", "x-kucoin-passphrase"},
                    "getUnifiedBalance", r, e)

\* the two-exchange version
getUnifiedBalance2(r, e) ==
    CombinedHandler(<<"xt", "bybit">>,
                    {"x-xt-api-key", "x-xt-secret-key", "x-bybit-api-key",
                     "x-bybit-secret-key"},
                    "getUnifiedBalance2", r, e)

-----------------------------------------------------------------------------
(* Requests and exchange behaviour the model draws from.                   *)

NoCreds == Creds(Undef, Undef, Undef)

Request(route, body, exchange, bExchange, orderId, credentials, combined) ==
    [route |-> route, symbol |-> body.symbol, quantity |-> body.quantity,
     price |-> body.price, type |-> body.type, exchange |-> exchange,
     bExchange |-> bExchange, orderId |-> orderId,
     hApiKey |-> credentials.hApiKey, hSecretKey |-> credentials.hSecretKey,
     hPassphrase |-> credentials.hPassphrase,
     bApiKey |-> credentials.bApiKey, bSecretKey |-> credentials.bSecretKey,
     combined |-> combined]

Credentials(hApiKey, hSecretKey, hPassphrase, bApiKey, bSecretKey) ==
    [hApiKey |-> hApiKey, hSecretKey |-> hSecretKey, hPassphrase |-> hPassphrase,
     bApiKey |-> bApiKey, bSecretKey |-> bSecretKey]

\* x-api-key / x-secret-key headers or apiKey / secretKey body fields
GenericCredentials ==
    {Credentials(Undef, Undef, Undef, Undef, Undef),
     Credentials(Str("key"), Undef, Undef, Undef, Undef),
     Credentials(Str("key"), Str("secret"), Undef, Undef, Undef),
     Credentials(Undef, Undef, Undef, Str("key"), Str("secret"))}

\* the headers of the per-exchange endpoints
HeaderCredentials(service) ==
    {Credentials(Undef, Undef, Undef, Undef, Undef),
     Credentials(Str("key"), Undef, Undef, Undef, Undef),
     Credentials(Str("key"), Str("secret"), Undef, Undef, Undef)}
    \cup (IF service = "kucoin"
          THEN {Credentials(Str("key"), Str("secret"), Str("phrase"), Undef, Undef)}
          ELSE {})

NoCombined == [x \in ExchangeSet |-> NoCreds]

\* the credentials of one exchange on a combined endpoint
CombinedCredentials(exchange) ==
    {NoCreds,
     IF NeedsPassphrase(exchange) THEN Creds(Str("key"), Str("secret"), Undef)
     ELSE Creds(Str("key"), Undef, Undef),
     IF NeedsPassphrase(exchange)
     THEN Creds(Str("key"), Str("secret"), Str("phrase"))
     ELSE Creds(Str("key"), Str("secret"), Undef)}

CombinedRequests(list) ==
    {c \in [xt : CombinedCredentials("xt"), bybit : CombinedCredentials("bybit"),
            binance : CombinedCredentials("binance"),
            kucoin : CombinedCredentials("kucoin"),
            bitget : CombinedCredentials("bitget")] :
        \A x \in ExchangeSet :
            x \notin {list[i] : i \in 1..Len(list)} => c[x] = NoCreds}

ExchangeValues ==
    {Undef, Null, Str(""), Str("xt"), Str("Bybit"), Str("binance"),
     Str("kucoin"), Str("bitget"), Str("kraken")}

Bodies ==
    [symbol : {Undef, Str("btc_usdt")},
     quantity : {Undef, Str("abc"), Num(-1)} \cup {Num(i) : i \in 0..MaxQty},
     price : {Undef, Null} \cup {Num(i) : i \in 0..MaxPrice},
     type : {Undef, Null, Str(""), Str("LIMIT"), Str("limit"), Str("MARKET"),
             Str("STOP")}]
NoBody == [symbol |-> Undef, quantity |-> Undef, price |-> Undef, type |-> Undef]
NoRequest ==
    Request("", NoBody, Undef, Undef, Undef,
            Credentials(Undef, Undef, Undef, Undef, Undef), NoCombined)

\* what the exchanges answer
DefaultBalance == [outcome |-> "ok", raw |-> <<>>]

-----------------------------------------------------------------------------
(* XT adapter: request signing (makeRequest, sortQueryParams, trimObject). *)
(* A string is the sequence of the pieces it is concatenated from.         *)

\* an object: its own properties in insertion order
Object(props) == [t |-> "object", n |-> 0, s |-> "", d |-> 0, props |-> props]

\* a.localeCompare(b) for the keys in use: negative when a sorts before b
localeCompare(a, b) ==
    LET order == <<"bizType", "orderId", "symbol">> IN
    (CHOOSE i \in 1..Len(order) : order[i] = a)
        - (CHOOSE i \in 1..Len(order) : order[i] = b)

trimObjectKeeping(obj) == obj

\* trimObject: the properties whose value is undefined are deleted
trimObject(obj) ==
    Object(SelectSeq(obj.props, LAMBDA p : p.value # Undef))

\* Object.keys(queryObject).sort((a, b) => a.localeCompare(b))
RECURSIVE SortKeys(_)
SortKeys(props) ==
    IF props = <<>> THEN <<>>
    ELSE LET first == CHOOSE p \in {props[i] : i \in 1..Len(props)} :
                          \A i \in 1..Len(props) : localeCompare(p.key, props[i].key) <= 0
         IN <<first>> \o SortKeys(SelectSeq(props, LAMBDA p : p # first))

\* sortQueryParams: key=value joined with '&' in key order, undefined skipped
RECURSIVE JoinParams(_, _)
JoinParams(sorted, sortResult) ==
    IF sorted = <<>> THEN sortResult
    ELSE IF Head(sorted).value = Undef THEN JoinParams(Tail(sorted), sortResult)
    ELSE JoinParams(Tail(sorted),
                    sortResult \o (IF sortResult # <<>> THEN <<"&">> ELSE <<>>)
                        \o <<Head(sorted).key, "=", Head(sorted).value.s>>)

sortQueryParams(queryObject) == JoinParams(SortKeys(queryObject.props), <<>>)

\* JSON.stringify of an object of string values: the properties in insertion
\* order, those with an undefined value left out
RECURSIVE JSONMembers(_, _)
JSONMembers(props, out) ==
    IF props = <<>> THEN out
    ELSE IF Head(props).value = Undef THEN JSONMembers(Tail(props), out)
    ELSE JSONMembers(Tail(props),
                     out \o (IF out # <<>> THEN <<",">> ELSE <<>>)
                         \o <<"\"", Head(props).key, "\":\"", Head(props).value.s, "\"">>)

JSONStringify(obj) == <<"{">> \o JSONMembers(obj.props, <<>>) \o <<"}">>

\* crypto.createHmac('sha256', key).update(data).digest('hex')
createHmac(key, data) == <<"hmac-sha256", key, data>>

\* the request makeRequest hands to axios; query and body have been trimmed
\* in place by the time they are used
makeRequest(apiKey, secretKey, method, path, query, body, now) ==
    LET headerPairs == <<<<"validate-algorithms", "HmacSHA256">>,
                         <<"validate-appkey", apiKey>>,
                         <<"validate-recvwindow", "60000">>,
                         <<"validate-timestamp", now>>>>
        X == <<"validate-algorithms", "=", "HmacSHA256", "&",
               "validate-appkey", "=", apiKey, "&",
               "validate-recvwindow", "=", "60000", "&",
               "validate-timestamp", "=", now>>
        trimmedQuery == IF query = Null THEN Null ELSE trimObject(query)
        queryStr == IF query # Null /\ Len(trimmedQuery.props) > 0
                    THEN <<"#">> \o sortQueryParams(trimmedQuery) ELSE <<>>
        trimmedBody == IF body = Null THEN Null ELSE trimObject(body)
        bodyStr == IF body # Null /\ Len(trimmedBody.props) > 0
                   THEN <<"#">> \o JSONStringify(trimmedBody) ELSE <<>>
        Y == <<"#", method, "#", path>> \o queryStr \o bodyStr
        signature == createHmac(secretKey, X \o Y)
        sent == headerPairs \o <<<<"validate-signature", signature>>>>
    IN [signing |-> X \o Y,
        headers |-> [name \in {sent[i][1] : i \in 1..Len(sent)} |->
                        sent[CHOOSE i \in 1..Len(sent) : sent[i][1] = name][2]],
        method |-> method,
        url |-> <<"https://sapi.xt.com", path>>
                    \o (IF queryStr = <<>> THEN <<>> ELSE <<"?">> \o Tail(queryStr)),
        data |-> trimmedBody]

Balances(exchange) ==
    {[outcome |-> o, raw |-> <<>>] : o \in Outcomes \ {"ok"}} \cup
    {[outcome |-> "ok", raw |-> raw] : raw \in
        CASE exchange = "xt" ->
                {<<Raw("usdt", a, 0, a, 0, 0), Raw("btc", a, 1, 0, 0, 0)>> :
                    a \in 0..MaxAmount}
          [] exchange = "bybit" ->
                {<<Raw("BTC", 0, 1, 2, 0, 0)>>,
                 <<Raw("USDT", 0, 0, 0, 1, 0), Raw("BTC", 0, 0, 1, 0, 0),
                   Raw("BTC", 0, 0, 1, 0, 0)>>}
          [] exchange = "binance" ->
                {<<Raw("BTC", 1, 0, 0, 0, 0), Raw("ETH", 0, 0, 0, 0, 0)>>,
                 <<Raw("USDT", 0, 2, 0, 0, 0)>>}
          [] exchange = "kucoin" ->
                {<<Raw("BTC", 1, 0, 1, 0, 0), Raw("BTC", 1, 0, 1, 0, 0)>>,
                 <<Raw("ETH", 0, 0, 0, 0, 0)>>}
          [] OTHER ->
                {<<Raw("USDT", 1, 1, 0, 0, 0)>>, <<>>}}

SymbolInfos ==
    {NoSymbolInfo,
     [found |-> TRUE, minQty |-> Num(1), minNotional |-> Num(1),
      basePrecision |-> Num(0), pricePrecision |-> Num(0)],
     [found |-> TRUE, minQty |-> Num(2), minNotional |-> Num(2),
      basePrecision |-> Num(0), pricePrecision |-> Num(0)]}

DefaultEnv ==
    [symbols |-> "ok", symbolInfo |-> NoSymbolInfo, order |-> "ok",
     outcome |-> "ok", balance |-> [x \in ExchangeSet |-> DefaultBalance]]

PlaceMethods == {"placeBuyOrder", "placeSellOrder"}
BalanceMethods == {"getBalance", "getPortfolio"}

\* the exchange behaviours that can matter to the adapter invocations made
EnvsOf(invoked) ==
    LET made == {invoked[i] : i \in 1..Len(invoked)}
        places == {c \in made : c.method \in PlaceMethods}
        reads(x) == \E c \in made :
                        /\ c.service = x
                        /\ \/ c.method \in BalanceMethods
                           \/ x = "xt" /\ c.method \in PlaceMethods
        xtPlaces == \E c \in places : c.service = "xt"
        BalancesOf(x) == IF ~reads(x) THEN {DefaultBalance}
                         ELSE IF x = "xt" /\ xtPlaces
                         THEN Balances(x) \cup {DefaultBalance}
                         ELSE Balances(x)
    IN [symbols : IF xtPlaces THEN {"ok", "rejected"} ELSE {"ok"},
        symbolInfo : IF xtPlaces THEN SymbolInfos ELSE {NoSymbolInfo},
        order : IF places # {} THEN Outcomes ELSE {"ok"},
        outcome : IF \E c \in made : c.method \notin PlaceMethods \cup BalanceMethods
                  THEN Outcomes ELSE {"ok"},
        balance : [xt : BalancesOf("xt"), bybit : BalancesOf("bybit"),
                   binance : BalancesOf("binance"), kucoin : BalancesOf("kucoin"),
                   bitget : BalancesOf("bitget")]]

\* an exchange answer nobody asked for stays at its default
Relevant(e, h) ==
    LET asked == {h.remote[i] : i \in 1..Len(h.remote)} IN
    /\ "symbols" \notin asked => e.symbols = "ok"
    /\ ("symbols" \notin asked \/ e.symbols # "ok") => e.symbolInfo = NoSymbolInfo
    /\ "order" \notin asked => e.order = "ok"
    /\ "outcome" \notin asked => e.outcome = "ok"
    /\ "balance" \notin asked => e.balance = DefaultEnv.balance

-----------------------------------------------------------------------------
(* The requests of each route.                                             *)

GenericOrders ==
    {Request("", b, x, Undef, Undef, c, NoCombined) :
        b \in Bodies, x \in ExchangeValues, c \in GenericCredentials}

\* GET /balance, GET /portfolio: the exchange in the query string or the body
GenericReads ==
    {Request("", NoBody, x, y, Undef, c, NoCombined) :
        x \in ExchangeValues \ {Null}, y \in {Undef, Str("kucoin")},
        c \in GenericCredentials}

GenericQueries ==
    {Request("", [NoBody EXCEPT !.symbol = Str("btc_usdt")], x, Undef, Undef, c, NoCombined) :
        x \in ExchangeValues \ {Null}, c \in GenericCredentials}

ExchangeOrders(service) ==
    {Request("", b, Undef, Undef, Undef, c, NoCombined) :
        b \in Bodies, c \in HeaderCredentials(service)}

ExchangeReads(service) ==
    {Request("", NoBody, Undef, Undef, Undef, c, NoCombined) :
        c \in HeaderCredentials(service)}

CombinedOf(list) ==
    {Request("", NoBody, Undef, Undef, Undef,
             Credentials(Undef, Undef, Undef, Undef, Undef), c) :
        c \in CombinedRequests(list)}

-----------------------------------------------------------------------------
(* The server: one request at a time is taken, answered and forgotten      *)
(* (requests share no state).                                              *)

Init ==
    /\ pc = "idle"
    /\ req = NoRequest
    /\ env = DefaultEnv
    /\ res = NoResponse
    /\ calls = <<>>
    /\ submitted = <<>>
    /\ kucoinConfig = NoCreds
    /\ responses = <<>>
    /\ trace = <<>>
    /\ validated = [called |-> FALSE, symbolInfo |-> NoSymbolInfo,
                    quantity |-> Undef, price |-> Undef, type |-> Undef,
                    result |-> [valid |-> FALSE, errors |-> <<>>]]
    /\ signed = [called |-> FALSE, apiKey |-> "", secretKey |-> "", method |-> "",
                 path |-> "", query |-> Null, body |-> Null, now |-> "",
                 request |-> [signing |-> <<>>, headers |-> <<>>, method |-> "",
                              url |-> <<>>, data |-> Null]]

\* KucoinService.initClient: kucoin.init({apiAuth: {key, secret, passphrase}})
\* on the imported SDK module, which every process-wide caller shares
initClient(apiKey, secretKey, passphrase) == Creds(apiKey, secretKey, passphrase)

\* the SDK configuration after the adapter invocations of a request: every
\* KuCoin method but testConnection starts with this.initClient(...)
RECURSIVE Configured(_, _)
Configured(config, invoked) ==
    IF invoked = <<>> THEN config
    ELSE LET c == Head(invoked) IN
         Configured(IF c.service = "kucoin"
                    THEN initClient(c.creds.apiKey, c.creds.secretKey,
                                    c.creds.passphrase)
                    ELSE config,
                    Tail(invoked))

\* a request on `route` is answered by `h` while the exchanges behave as `e`
Serve(route, r, e, h) ==
    /\ Relevant(e, h)
    /\ pc' = "done"
    /\ req' = [r EXCEPT !.route = route]
    /\ env' = e
    /\ res' = h.res
    /\ calls' = h.calls
    /\ submitted' = h.orders
    /\ kucoinConfig' = Configured(kucoinConfig, h.calls)
    /\ responses' = h.responses
    /\ trace' = h.remote
    /\ UNCHANGED <<validated, signed>>

PostBuy ==
    /\ pc = "idle"
    /\ \E r \in GenericOrders :
        \E e \in EnvsOf(Chain(r, buyOrder(r, DefaultEnv)).calls) :
            Serve("POST /buy", r, e, Chain(r, buyOrder(r, e)))

PostSell ==
    /\ pc = "idle"
    /\ \E r \in GenericOrders :
        \E e \in EnvsOf(Chain(r, sellOrder(r, DefaultEnv)).calls) :
            Serve("POST /sell", r, e, Chain(r, sellOrder(r, e)))

GetBalance ==
    /\ pc = "idle"
    /\ \E r \in GenericReads :
        \E e \in EnvsOf(getBalance(r, DefaultEnv).calls) :
            Serve("GET /balance", r, e, getBalance(r, e))

GetPortfolio ==
    /\ pc = "idle"
    /\ \E r \in GenericReads :
        \E e \in EnvsOf(getPortfolio(r, DefaultEnv).calls) :
            Serve("GET /portfolio", r, e, getPortfolio(r, e))

GetOrders ==
    /\ pc = "idle"
    /\ \E r \in GenericQueries :
        \E e \in EnvsOf(getOrderHistory(r, DefaultEnv).calls) :
            Serve("GET /orders", r, e, getOrderHistory(r, e))

DeleteOrder ==
    /\ pc = "idle"
    /\ \E r \in {Request("", NoBody, x, Undef, Str("42"), c, NoCombined) :
                    x \in ExchangeValues, c \in GenericCredentials} :
        \E e \in EnvsOf(cancelOrder(r, DefaultEnv).calls) :
            Serve("DELETE /orders/:orderId", r, e, cancelOrder(r, e))

GetSymbols ==
    /\ pc = "idle"
    /\ \E r \in GenericQueries :
        \E e \in EnvsOf(getSymbols(r, DefaultEnv).calls) :
            Serve("GET /symbols", r, e, getSymbols(r, e))

GetTicker ==
    /\ pc = "idle"
    /\ \E r \in GenericQueries :
        \E e \in EnvsOf(getTicker(r, DefaultEnv).calls) :
            Serve("GET /ticker/:symbol", r, e, getTicker(r, e))

GetDepth ==
    /\ pc = "idle"
    /\ \E r \in GenericQueries :
        \E e \in EnvsOf(getDepth(r, DefaultEnv).calls) :
            Serve("GET /depth/:symbol", r, e, getDepth(r, e))

GetCombinedPortfolio ==
    /\ pc = "idle"
    /\ \E r \in CombinedOf(Exchanges) :
        \E e \in EnvsOf(getCombinedPortfolio(r, DefaultEnv).calls) :
            Serve("GET /portfolio/combined", r, e, getCombinedPortfolio(r, e))

GetUnifiedBalance ==
    /\ pc = "idle"
    /\ \E r \in CombinedOf(<<"xt", "bybit", "binance", "kucoin">>) :
        \E e \in EnvsOf(getUnifiedBalance(r, DefaultEnv).calls) :
            Serve("GET /unified/balance", r, e, getUnifiedBalance(r, e))

GetUnifiedBalance2 ==
    /\ pc = "idle"
    /\ \E r \in CombinedOf(<<"xt", "bybit">>) :
        \E e \in EnvsOf(getUnifiedBalance2(r, DefaultEnv).calls) :
            Serve("GET /unified/balance (two exchanges)", r, e, getUnifiedBalance2(r, e))

GetXtBalance ==
    /\ pc = "idle"
    /\ \E r \in ExchangeReads("xt") :
        \E e \in EnvsOf(getXtBalance(r, DefaultEnv).calls) :
            Serve("GET /unified/balance/xt", r, e, getXtBalance(r, e))

GetBybitBalance ==
    /\ pc = "idle"
    /\ \E r \in ExchangeReads("bybit") :
        \E e \in EnvsOf(getBybitBalance(r, DefaultEnv).calls) :
            Serve("GET /unified/balance/bybit", r, e, getBybitBalance(r, e))

GetBinanceBalance ==
    /\ pc = "idle"
    /\ \E r \in ExchangeReads("binance") :
        \E e \in EnvsOf(getBinanceBalance(r, DefaultEnv).calls) :
            Serve("GET /unified/balance/binance", r, e, getBinanceBalance(r, e))

GetKucoinBalance ==
    /\ pc = "idle"
    /\ \E r \in ExchangeReads("kucoin") :
        \E e \in EnvsOf(getKucoinBalance(r, DefaultEnv).calls) :
            Serve("GET /unified/balance/kucoin", r, e, getKucoinBalance(r, e))

PostXtBuy ==
    /\ pc = "idle"
    /\ \E r \in ExchangeOrders("xt") :
        \E e \in EnvsOf(xtBuyOrder(r, DefaultEnv).calls) :
            Serve("POST /unified/xt/buy", r, e, xtBuyOrder(r, e))

PostXtSell ==
    /\ pc = "idle"
    /\ \E r \in ExchangeOrders("xt") :
        \E e \in EnvsOf(xtSellOrder(r, DefaultEnv).calls) :
            Serve("POST /unified/xt/sell", r, e, xtSellOrder(r, e))

PostBybitBuy ==
    /\ pc = "idle"
    /\ \E r \in ExchangeOrders("bybit") :
        \E e \in EnvsOf(bybitBuyOrder(r, DefaultEnv).calls) :
            Serve("POST /unified/bybit/buy", r, e, bybitBuyOrder(r, e))

PostBybitSell ==
    /\ pc = "idle"
    /\ \E r \in ExchangeOrders("bybit") :
        \E e \in EnvsOf(bybitSellOrder(r, DefaultEnv).calls) :
            Serve("POST /unified/bybit/sell", r, e, bybitSellOrder(r, e))

PostBinanceBuy ==
    /\ pc = "idle"
    /\ \E r \in ExchangeOrders("binance") :
        \E e \in EnvsOf(binanceBuyOrder(r, DefaultEnv).calls) :
            Serve("POST /unified/binance/buy", r, e, binanceBuyOrder(r, e))

PostBinanceSell ==
    /\ pc = "idle"
    /\ \E r \in ExchangeOrders("binance") :
        \E e \in EnvsOf(binanceSellOrder(r, DefaultEnv).calls) :
            Serve("POST /unified/binance/sell", r, e, binanceSellOrder(r, e))

PostKucoinBuy ==
    /\ pc = "idle"
    /\ \E r \in ExchangeOrders("kucoin") :
        \E e \in EnvsOf(kucoinBuyOrder(r, DefaultEnv).calls) :
            Serve("POST /unified/kucoin/buy", r, e, kucoinBuyOrder(r, e))

PostKucoinSell ==
    /\ pc = "idle"
    /\ \E r \in ExchangeOrders("kucoin") :
        \E e \in EnvsOf(kucoinSellOrder(r, DefaultEnv).calls) :
            Serve("POST /unified/kucoin/sell", r, e, kucoinSellOrder(r, e))

\* the response has been sent
Finish ==
    /\ pc = "done"
    /\ pc' = "idle"
    /\ req' = NoRequest
    /\ env' = DefaultEnv
    /\ res' = NoResponse
    /\ calls' = <<>>
    /\ submitted' = <<>>
    /\ responses' = <<>>
    /\ trace' = <<>>
    /\ UNCHANGED <<kucoinConfig, validated, signed>>

Next ==
    \/ PostBuy
    \/ PostSell
    \/ GetBalance
    \/ GetPortfolio
    \/ GetOrders
    \/ DeleteOrder
    \/ GetSymbols
    \/ GetTicker
    \/ GetDepth
    \/ GetCombinedPortfolio
    \/ GetUnifiedBalance
    \/ GetUnifiedBalance2
    \/ GetXtBalance
    \/ GetBybitBalance
    \/ GetBinanceBalance
    \/ GetKucoinBalance
    \/ PostXtBuy
    \/ PostXtSell
    \/ PostBybitBuy
    \/ PostBybitSell
    \/ PostBinanceBuy
    \/ PostBinanceSell
    \/ PostKucoinBuy
    \/ PostKucoinSell
    \/ Finish

Spec == Init /\ [][Next]_vars

-----------------------------------------------------------------------------
(* XTService.validateOrder on its own: the function applied to symbol      *)
(* metadata, quantities and prices with decimal places.                    *)

\* validateOrder(symbolInfo, quantity, price, type) is called, with
\* quantities and prices of up to two decimal places
ValidateOrder ==
    /\ ~validated.called
    /\ \E symbolInfo \in
            {NoSymbolInfo} \cup
            {[found |-> TRUE, minQty |-> Num(1), minNotional |-> n,
              basePrecision |-> b, pricePrecision |-> p] :
                n \in {Num(1), Num(5)}, b \in {Num(0), Num(1)},
                p \in {Num(0), Num(1)}},
          quantity \in {Dec(n, 1) : n \in 1..MaxTenths} \cup {Dec(1, 2), Num(50)},
          price \in {Dec(n, 1) : n \in 1..MaxTenths}
                        \cup {Dec(1, 2), Num(50), Null, Num(0)},
          type \in {Str("LIMIT"), Str("MARKET"), Str("limit")} :
        /\ validated' =
              [called |-> TRUE, symbolInfo |-> symbolInfo, quantity |-> quantity,
               price |-> price, type |-> type,
               result |-> validateOrder(symbolInfo, quantity, price, type)]
        /\ UNCHANGED <<pc, req, env, res, calls, submitted, kucoinConfig, responses, trace, signed>>

ValidateSpec == Init /\ [][ValidateOrder]_vars

-----------------------------------------------------------------------------
(* XTService.makeRequest on its own: the request it builds and signs.      *)

\* makeRequest(apiKey, secretKey, method, path, query, body) is called with
\* both keys present, at time Date.now() = now; query and body are null or
\* have up to MaxProps properties in insertion order, undefined values
\* included
MakeRequest ==
    /\ ~signed.called
    /\ \E apiKey \in {"k1", "k2"}, secretKey \in {"s1", "s2"},
          method \in {"GET", "POST"}, path \in {"/v4/order"}, now \in {"1", "2"},
          query, body \in
            {Null} \cup
            {Object(props) : props \in
                {p \in UNION {[1..n -> [key : {"symbol", "bizType", "orderId"},
                                       value : {Undef, Str("a")}]] :
                              n \in 0..MaxProps} :
                    \A i, j \in 1..Len(p) : p[i].key = p[j].key => i = j}} :
        /\ signed' = [called |-> TRUE, apiKey |-> apiKey, secretKey |-> secretKey,
                      method |-> method, path |-> path, query |-> query,
                      body |-> body, now |-> now,
                      request |-> makeRequest(apiKey, secretKey, method, path,
                                              query, body, now)]
        /\ UNCHANGED <<pc, req, env, res, calls, submitted, kucoinConfig, responses, trace, validated>>

SignSpec == Init /\ [][MakeRequest]_vars

-----------------------------------------------------------------------------
(* Properties.                                                             *)

PlaceOrderHandlers ==
    {"buyOrder", "sellOrder", "xtBuyOrder", "xtSellOrder", "bybitBuyOrder",
     "bybitSellOrder", "binanceBuyOrder", "binanceSellOrder", "kucoinBuyOrder",
     "kucoinSellOrder"}

\* the order type of the request: upper case, LIMIT when none is given
NormalizedType == UpperOf(IF Truthy(req.type) THEN req.type.s ELSE "LIMIT")

\* a place-order handler has answered the request
OrderHandled == pc = "done" /\ res.by \in PlaceOrderHandlers

Rejected(status, error) ==
    /\ res.status = status
    /\ ~res.success
    /\ res.error = Str(error)
    /\ calls = <<>>
    /\ submitted = <<>>

\* C1: on every place-order handler a LIMIT request without a price is
\* answered 400 'Price is required for LIMIT orders', a MARKET request with a
\* price is answered 400 'Do not send price for MARKET orders', and in both
\* cases no adapter method is invoked.
C1_PriceRule ==
    OrderHandled =>
        /\ (NormalizedType = "LIMIT" /\ req.price \in {Undef, Null})
              => Rejected(400, "Price is required for LIMIT orders")
        /\ (NormalizedType = "MARKET" /\ req.price \notin {Undef, Null})
              => Rejected(400, "Do not send price for MARKET orders")

\* a MARKET order with a price reached the KuCoin sell handler with complete
\* credentials and was turned away
C1_Witness ==
    /\ OrderHandled
    /\ res.by = "kucoinSellOrder"
    /\ req.type = Str("MARKET")
    /\ req.price = Num(1)
    /\ Truthy(req.hPassphrase)
    /\ req.symbol = Str("btc_usdt")
    /\ req.quantity = Num(1)
    /\ Rejected(400, "Do not send price for MARKET orders")

\* C2: every order an adapter hands to an exchange client keeps the
\* OrderRequest invariant: submitted as LIMIT it carries a price, submitted
\* as MARKET it carries none.
C2_SubmittedOrdersKeepPriceInvariant ==
    \A i \in 1..Len(submitted) :
        /\ UpperOf(submitted[i].orderType) = "LIMIT" => submitted[i].price # Undef
        /\ UpperOf(submitted[i].orderType) = "MARKET" => submitted[i].price = Undef


GenericOrderRoutes == {"POST /buy", "POST /sell"}
ExchangeOrderRoutes ==
    {"POST /unified/xt/buy", "POST /unified/xt/sell", "POST /unified/bybit/buy",
     "POST /unified/bybit/sell", "POST /unified/binance/buy",
     "POST /unified/binance/sell", "POST /unified/kucoin/buy",
     "POST /unified/kucoin/sell"}
OrderRoutes == GenericOrderRoutes \cup ExchangeOrderRoutes

\* a place-order request has been answered
OrderAnswered == pc = "done" /\ req.route \in OrderRoutes

PriceRuleViolated ==
    \/ NormalizedType = "LIMIT" /\ req.price \in {Undef, Null}
    \/ NormalizedType = "MARKET" /\ req.price \notin {Undef, Null}

PriceRuleErrors ==
    {Str("Price is required for LIMIT orders"),
     Str("Do not send price for MARKET orders")}

\* the request carries neither header nor body credentials in full
LacksCredentials ==
    /\ ~(Truthy(req.hApiKey) /\ Truthy(req.hSecretKey))
    /\ ~(Truthy(req.bApiKey) /\ Truthy(req.bSecretKey))

\* the symbol is missing, or the quantity is missing, non-numeric, zero or
\* negative
BadSymbolOrQuantity ==
    \/ req.symbol = Undef
    \/ req.quantity \in {Undef, Str("abc")}
    \/ IsNum(req.quantity) /\ req.quantity.n <= 0

C4_BadSymbolOrQuantityRejected ==
    OrderAnswered =>
        /\ BadSymbolOrQuantity => (res.status \in {400, 401} /\ calls = <<>>)
        /\ \A i \in 1..Len(calls) :
              IsNum(calls[i].quantity) /\ calls[i].quantity.n > 0

\* C5: on every place-order route a request whose type, in upper case, is
\* neither LIMIT nor MARKET is rejected with 400 before any adapter is
\* invoked, and no adapter submits an order for it.  (A 401 is let through
\* here where the handler asks for credentials first.)
C5_UnknownTypeRejected ==
    (OrderAnswered /\ NormalizedType \notin {"LIMIT", "MARKET"})
        => (res.status \in {400, 401} /\ calls = <<>> /\ submitted = <<>>)

GenericRoutes ==
    GenericOrderRoutes \cup
    {"GET /balance", "GET /portfolio", "GET /orders", "DELETE /orders/:orderId",
     "GET /symbols", "GET /ticker/:symbol", "GET /depth/:symbol"}

\* a request on the generic router has been answered
GenericAnswered == pc = "done" /\ req.route \in GenericRoutes

\* the exchange value of the request: GET /balance and GET /portfolio read
\* the query string and then the body and take an empty value as not given
GivenExchange ==
    IF req.route \in {"GET /balance", "GET /portfolio"}
    THEN IF req.exchange \notin {Undef, Str("")} THEN req.exchange
         ELSE IF req.bExchange \notin {Undef, Str("")} THEN req.bExchange
         ELSE Undef
    ELSE req.exchange

ExchangeNames == {"xt", "bybit", "binance", "kucoin", "bitget"}

\* the value is one of the five names in some letter case
NamesExchange(v, name) == IsStr(v) /\ LowerOf(v.s) = name

ExchangeBalanceRoutes ==
    {"GET /unified/balance/xt", "GET /unified/balance/bybit",
     "GET /unified/balance/binance", "GET /unified/balance/kucoin"}
CombinedRoutes ==
    {"GET /portfolio/combined", "GET /unified/balance",
     "GET /unified/balance (two exchanges)"}
SingleRoutes == GenericRoutes \cup ExchangeOrderRoutes \cup ExchangeBalanceRoutes

\* no exchange of a combined request has both its API key and its secret key
LacksAllCombined ==
    \A x \in ExchangeSet :
        ~(Truthy(req.combined[x].apiKey) /\ Truthy(req.combined[x].secretKey))

\* the request lacks the API key or the secret key
Unauthenticated ==
    \/ req.route \in SingleRoutes /\ LacksCredentials
    \/ req.route \in CombinedRoutes /\ LacksAllCombined

ExchangeUnknown ==
    /\ GivenExchange # Undef
    /\ \A name \in ExchangeNames : ~NamesExchange(GivenExchange, name)

\* a validation that comes before the credential check turns the request away
RejectedEarlier ==
    \/ /\ req.route \in GenericOrderRoutes
       /\ \/ BadSymbolOrQuantity
          \/ NormalizedType \notin {"LIMIT", "MARKET"}
    \/ req.route \in OrderRoutes /\ PriceRuleViolated
    \/ req.route \in GenericRoutes /\ ExchangeUnknown

C8_PassphraseAlwaysPassed ==
    \A i \in 1..Len(calls) :
        calls[i].service \in {"kucoin", "bitget"}
            => Truthy(calls[i].creds.passphrase)


\* a combined request has been answered
CombinedAnswered == pc = "done" /\ req.route \in CombinedRoutes

\* the exchanges a combined endpoint covers
Covered ==
    CASE req.route = "GET /portfolio/combined" -> ExchangeNames
      [] req.route = "GET /unified/balance" -> {"xt", "bybit", "binance", "kucoin"}
      [] OTHER -> {"xt", "bybit"}

\* the request carries the full credentials of exchange x
Attempted(x) ==
    /\ x \in Covered
    /\ Truthy(req.combined[x].apiKey)
    /\ Truthy(req.combined[x].secretKey)
    /\ (x \in {"kucoin", "bitget"} => Truthy(req.combined[x].passphrase))

Succeeded(x) == Attempted(x) /\ env.balance[x].outcome = "ok"
Failed(x) == Attempted(x) /\ env.balance[x].outcome # "ok"

\* the portfolio the adapter of a succeeding exchange returned
PortfolioOf(x) == GetPortfolioOf(x, req.combined[x], env.balance[x]).data

RECURSIVE TotalIn(_, _)
TotalIn(portfolio, currency) ==
    IF portfolio = <<>> THEN 0
    ELSE (IF LowerOf(Head(portfolio).currency) = currency
          THEN Head(portfolio).total ELSE 0)
         + TotalIn(Tail(portfolio), currency)

RECURSIVE TotalOver(_, _)
TotalOver(exchanges, currency) ==
    IF exchanges = {} THEN 0
    ELSE LET x == CHOOSE y \in exchanges : TRUE IN
         TotalIn(PortfolioOf(x), currency) + TotalOver(exchanges \ {x}, currency)

Currencies == {"btc", "usdt", "eth"}

\* combinedPortfolio holds what the succeeding exchanges hold and nothing else
FromSucceededOnly ==
    LET good == {x \in ExchangeNames : Succeeded(x)}
        combined == res.combinedPortfolio
    IN /\ \A i \in 1..Len(combined) :
              /\ \A j \in 1..Len(combined[i].exchanges) :
                    combined[i].exchanges[j] \in good
              /\ combined[i].total
                    = TotalOver(good, LowerOf(combined[i].currency))
       /\ \A c \in Currencies :
              (\E x \in good : \E k \in 1..Len(PortfolioOf(x)) :
                    LowerOf(PortfolioOf(x)[k].currency) = c)
                  <=> (\E i \in 1..Len(combined) :
                          LowerOf(combined[i].currency) = c)

\* C9: in a combined request where an exchange A succeeds and an exchange B
\* fails, the response is 200 with success:true, errors has an entry naming B
\* with its error, and combinedPortfolio is built only from the portfolios
\* of the exchanges that succeeded.
C9_PartialFailure ==
    (CombinedAnswered /\ \E a \in ExchangeNames : Succeeded(a))
        => \A b \in ExchangeNames :
              Failed(b) =>
                  /\ res.status = 200
                  /\ res.success
                  /\ \E i \in 1..Len(res.errors) :
                        /\ res.errors[i].exchange = b
                        /\ IsStr(res.errors[i].error)
                  /\ FromSucceededOnly

\* XT and Binance answered, KuCoin failed: BTC is merged from two exchanges
C9_Witness ==
    /\ CombinedAnswered
    /\ req.route = "GET /portfolio/combined"
    /\ Succeeded("xt")
    /\ Succeeded("binance")
    /\ Failed("kucoin")
    /\ res.status = 200
    /\ \E i \in 1..Len(res.combinedPortfolio) :
          res.combinedPortfolio[i].exchanges = <<"xt", "binance">>
    /\ \E i \in 1..Len(res.errors) : res.errors[i].exchange = "kucoin"

\* the credential headers of an exchange
HeadersOf(x) ==
    CASE x = "xt" -> {"x-xt-api-key", "x-xt-secret-key"}
      [] x = "bybit" -> {"x-bybit-api-key", "x-bybit-secret-key"}
      [] x = "binance" -> {"x-binance-api-key", "x-binance-secret-key"}
      [] x = "kucoin" ->
            {"x-kucoin-api-key", "x-kucoin-secret-key", "x-kucoin-passphrase"}
      [] OTHER -> {"x-bitget-api-key", "x-bitget-secret-key", "x-bitget-passphrase"}

\* C10: the combined endpoints answer 400 with success:false and a
\* requiredHeaders hint listing every supported credential header exactly
\* when no exchange produced a portfolio, and 200 with success:true whenever
\* at least one did.
C10_TotalFailure ==
    CombinedAnswered =>
        IF \E a \in ExchangeNames : Succeeded(a)
        THEN res.status = 200 /\ res.success /\ res.requiredHeaders = {}
        ELSE /\ res.status = 400
             /\ ~res.success
             /\ res.requiredHeaders = UNION {HeadersOf(x) : x \in Covered}

\* every attempted exchange of the four-exchange balance failed
C10_Witness ==
    /\ CombinedAnswered
    /\ req.route = "GET /unified/balance"
    /\ Failed("xt")
    /\ Failed("kucoin")
    /\ ~Attempted("bybit")
    /\ res.status = 400
    /\ Len(res.errors) = 2
    /\ "x-kucoin-passphrase" \in res.requiredHeaders

\* exchange x appears in the aggregation or in the errors list
Aggregated(x) ==
    \/ \E i \in 1..Len(res.combinedPortfolio) :
          \E j \in 1..Len(res.combinedPortfolio[i].exchanges) :
              res.combinedPortfolio[i].exchanges[j] = x
    \/ \E i \in 1..Len(res.exchangeData) : res.exchangeData[i].exchange = x
InErrors(x) == \E i \in 1..Len(res.errors) : res.errors[i].exchange = x
Invoked(x) == \E i \in 1..Len(calls) : calls[i].service = x

\* C11: in a combined request an exchange whose credentials are
\* absent or incomplete is excluded from aggregation and is recorded in the
\* errors list with its exchange name.
C11_AbsentRecorded ==
    CombinedAnswered =>
        \A x \in Covered :
            ~Attempted(x) => ~Aggregated(x) /\ InErrors(x)

\* the exchanges of an answered combined request that returned a portfolio
Good == {x \in ExchangeNames : Succeeded(x)}

\* the currencies, in lower case, held on the exchanges that succeeded
Held ==
    {c \in Currencies :
        \E x \in Good : \E k \in 1..Len(PortfolioOf(x)) :
            LowerOf(PortfolioOf(x)[k].currency) = c}

\* C12: the combined portfolio is deduplicated by currency: no two entries
\* of combinedPortfolio have the same currency under case-insensitive
\* comparison, and totalAssets is the number of distinct (case-insensitive)
\* currencies held across the successful exchanges.
C12_Deduplicated ==
    (CombinedAnswered /\ res.status = 200) =>
        LET combined == res.combinedPortfolio IN
        /\ \A i, j \in 1..Len(combined) :
              LowerOf(combined[i].currency) = LowerOf(combined[j].currency)
                  => i = j
        /\ res.totalAssets = Cardinality(Held)
        /\ Len(combined) = Cardinality(Held)

\* XT holds usdt and btc, Binance BTC, KuCoin BTC twice: two entries
C12_Witness ==
    /\ CombinedAnswered
    /\ req.route = "GET /portfolio/combined"
    /\ Good = {"xt", "binance", "kucoin"}
    /\ Len(PortfolioOf("xt")) = 2
    /\ Len(PortfolioOf("kucoin")) = 2
    /\ \E k \in 1..Len(PortfolioOf("binance")) :
          PortfolioOf("binance")[k].currency = "BTC"
    /\ res.status = 200
    /\ res.totalAssets = 2

\* the sum of one field over the entries of a portfolio with a currency
RECURSIVE SumIn(_, _, _)
SumIn(portfolio, currency, field) ==
    IF portfolio = <<>> THEN 0
    ELSE (IF LowerOf(Head(portfolio).currency) = currency
          THEN Head(portfolio)[field] ELSE 0)
         + SumIn(Tail(portfolio), currency, field)

RECURSIVE SumOver(_, _, _)
SumOver(exchanges, currency, field) ==
    IF exchanges = {} THEN 0
    ELSE LET x == CHOOSE y \in exchanges : TRUE IN
         SumIn(PortfolioOf(x), currency, field)
             + SumOver(exchanges \ {x}, currency, field)

\* C13: for every currency in the combined portfolio, its total, available
\* and frozen each equal the sum of that field over all per-exchange
\* portfolio entries with that currency (case-insensitive) from the
\* successful exchanges; a portfolio that reports an entry twice counts
\* each field twice.
C13_FieldSums ==
    (CombinedAnswered /\ res.status = 200) =>
        \A i \in 1..Len(res.combinedPortfolio) :
            LET entry == res.combinedPortfolio[i] IN
            \A field \in {"total", "available", "frozen"} :
                entry[field] = SumOver(Good, LowerOf(entry.currency), field)

\* USDT frozen on Binance and on Bitget is added up; KuCoin's doubled BTC
\* entry doubles the BTC amounts
C13_Witness ==
    /\ CombinedAnswered
    /\ req.route = "GET /portfolio/combined"
    /\ Good = {"binance", "kucoin", "bitget"}
    /\ res.status = 200
    /\ \E i \in 1..Len(res.combinedPortfolio) :
          /\ res.combinedPortfolio[i].currency = "USDT"
          /\ res.combinedPortfolio[i].frozen = 3
          /\ res.combinedPortfolio[i].total = 4
    /\ \E i \in 1..Len(res.combinedPortfolio) :
          /\ res.combinedPortfolio[i].currency = "BTC"
          /\ res.combinedPortfolio[i].available = 2
          /\ res.combinedPortfolio[i].total = 2

\* the exchanges that succeeded and hold a currency
Holders(currency) ==
    {x \in Good :
        \E k \in 1..Len(PortfolioOf(x)) :
            LowerOf(PortfolioOf(x)[k].currency) = LowerOf(currency)}

\* C14: for every combined-portfolio entry, the exchanges list names
\* exactly the exchanges that hold that currency, each exchange once; so
\* when only one exchange's credentials are supplied every entry's exchanges
\* list is exactly that exchange, whatever entries its adapter returned.
C14_ExchangesExact ==
    (CombinedAnswered /\ res.status = 200) =>
        \A i \in 1..Len(res.combinedPortfolio) :
            LET entry == res.combinedPortfolio[i] IN
            /\ {entry.exchanges[j] : j \in 1..Len(entry.exchanges)}
                  = Holders(entry.currency)
            /\ Len(entry.exchanges) = Cardinality(Holders(entry.currency))

\* the lower-cased currencies of the portfolio of exchange x
CurrenciesOf(x) ==
    {LowerOf(PortfolioOf(x)[k].currency) : k \in 1..Len(PortfolioOf(x))}

\* C15: aggregating the portfolios of two exchanges a and b that have no
\* currency in common yields a combined portfolio with exactly
\* len(a) + len(b) entries, each with an exchanges list of length 1.
C15_DisjointUnion ==
    (CombinedAnswered /\ res.status = 200) =>
        \A a, b \in ExchangeNames :
            (a # b /\ Good = {a, b} /\ CurrenciesOf(a) \cap CurrenciesOf(b) = {})
                => /\ Len(res.combinedPortfolio)
                        = Len(PortfolioOf(a)) + Len(PortfolioOf(b))
                   /\ \A i \in 1..Len(res.combinedPortfolio) :
                          Len(res.combinedPortfolio[i].exchanges) = 1

\* C16: for each of the five adapters and any exchange balance response,
\* every entry of the portfolio returned by getPortfolio has total > 0: an
\* asset whose computed total is 0 is never included, whatever its other
\* fields.
C16_PositiveTotals ==
    CombinedAnswered =>
        \A i \in 1..Len(res.exchangeData) :
            \A k \in 1..Len(res.exchangeData[i].portfolio) :
                res.exchangeData[i].portfolio[k].total > 0

\* C17: every response carries a boolean success, and whenever success is
\* false it also carries a non-empty human-readable error string, also
\* when an exchange returns a non-success code with no message text.
C17_ErrorString ==
    pc = "done" =>
        /\ res.success \in BOOLEAN
        /\ ~res.success => IsStr(res.error) /\ res.error.s # ""

\* the routes that make one outbound call
ReadRoutes == (GenericRoutes \ GenericOrderRoutes) \cup ExchangeBalanceRoutes

\* the outbound call of the request raised a network exception
Excepted ==
    \/ env.outcome = "exception"
    \/ \E x \in ExchangeNames : env.balance[x].outcome = "exception"

\* the exchange answered the outbound call with a non-success code
NativeError ==
    \/ env.outcome \in {"rejected", "rejectedNoMsg"}
    \/ \E x \in ExchangeNames :
          env.balance[x].outcome \in {"rejected", "rejectedNoMsg"}

\* C18: when the outbound call to an exchange raises a network exception
\* the HTTP response has status 500, whereas an exchange-native non-success
\* code yields status 400.
C18_ErrorStatus ==
    (pc = "done" /\ req.route \in ReadRoutes /\ calls # <<>>) =>
        /\ Excepted => res.status = 500 /\ ~res.success
        /\ NativeError => res.status = 400 /\ ~res.success

C20_RequestScoped ==
    pc = "idle" => kucoinConfig = NoCreds

\* the orders POSTed to XT's /v4/order for the request
XtSubmitted == {i \in 1..Len(submitted) : submitted[i].exchange = "xt"}

\* C21: XT placeBuyOrder / placeSellOrder apply the pre-submission rules
\* according to the uppercase-normalized order type: for a request whose
\* type is LIMIT in any letter case no order with quantity below minQty or
\* quantity * price below minNotional is POSTed to /v4/order, and for MARKET
\* in any letter case none with quantity below minNotional.
C21_MinimumsByNormalizedType ==
    pc = "done" =>
        \A i \in XtSubmitted :
            LET qty == ParseFloat(req.quantity)
                prc == ParseFloat(req.price)
                info == env.symbolInfo
            IN /\ submitted[i].orderType = "LIMIT" =>
                      /\ ~Lt(qty, info.minQty)
                      /\ ~Lt(Mul(qty, prc), info.minNotional)
               /\ submitted[i].orderType = "MARKET" =>
                      ~Lt(qty, info.minNotional)

\* the amount the balance checker has to find for an XT order of the request
RequiredFor(order) ==
    LET qty == ParseFloat(req.quantity)
        reserve == IF LowerOf(QuoteCurrency(req.symbol.s)) = "usdt" THEN 1 ELSE 0
    IN IF order.side = "SELL" THEN qty
       ELSE IF order.orderType = "LIMIT"
       THEN Add(Mul(qty, ParseFloat(req.price)), Num(reserve))
       ELSE Add(qty, Num(reserve))

\* the currency the balance checker has to look at
CurrencyFor(order) ==
    IF order.side = "SELL" THEN BaseCurrency(req.symbol.s)
    ELSE QuoteCurrency(req.symbol.s)

\* C22: an XT order is POSTed to /v4/order only if, in the same call, the
\* live available balance of the relevant currency was found to be at least
\* the required amount: for BUY the quote currency with quantity * price
\* (LIMIT) or quantity (MARKET) plus a reserve of 1 for USDT, for SELL the
\* base currency with the quantity.
C22_BalanceChecked ==
    pc = "done" =>
        \A i \in XtSubmitted :
            /\ env.balance["xt"].outcome = "ok"
            /\ Ge(Num(AvailableOf(env.balance["xt"].raw,
                                  CurrencyFor(submitted[i]))),
                  RequiredFor(submitted[i]))

\* the adapter method behind a read route of the generic router
MethodOf(route) ==
    CASE route = "GET /orders" -> "getOrderHistory"
      [] route = "GET /symbols" -> "getSymbols"
      [] route = "GET /ticker/:symbol" -> "getTicker"
      [] route = "GET /depth/:symbol" -> "getDepth"
      [] route = "DELETE /orders/:orderId" -> "cancelOrder"
      [] route = "GET /balance" -> "getBalance"
      [] OTHER -> "getPortfolio"

\* an authenticated request reached an exchange whose adapter lacks the
\* operation of the route
Unsupported ==
    /\ GenericAnswered
    /\ req.route \notin GenericOrderRoutes
    /\ ~LacksCredentials
    /\ \E name \in ExchangeNames :
          /\ NamesExchange(GivenExchange, name)
          /\ ~Implemented(name, MethodOf(req.route))

\* C23: for every (exchange, operation) pair reachable through the generic
\* router where the exchange's adapter does not implement the operation,
\* the request ends with an explicit success:false response reporting that
\* the operation is not supported for that exchange; it never ends with
\* success:true.
C23_UnsupportedReported ==
    Unsupported =>
        /\ ~res.success
        /\ res.error = Str("Not supported for this exchange")

\* validateOrder was given a LIMIT order with a parseable positive price
\* for a listed symbol
LimitValidated ==
    /\ validated.called
    /\ validated.symbolInfo.found
    /\ validated.type = Str("LIMIT")
    /\ Lt(Num(0), ParseFloat(validated.price))

\* the rules of a LIMIT order that the validated order violates, by message
ViolatedRules ==
    LET info == validated.symbolInfo
        qty == ParseFloat(validated.quantity)
        prc == ParseFloat(validated.price)
    IN {m \in {"Quantity is below minimum", "Order total is below minimum",
               "Quantity precision exceeds maximum",
               "Price precision exceeds maximum"} :
          \/ m = "Quantity is below minimum" /\ Lt(qty, info.minQty)
          \/ m = "Order total is below minimum"
                /\ Lt(Mul(qty, prc), info.minNotional)
          \/ m = "Quantity precision exceeds maximum"
                /\ DecimalPlaces(qty) > info.basePrecision.n
          \/ m = "Price precision exceeds maximum"
                /\ DecimalPlaces(prc) > info.pricePrecision.n}

\* C24: validateOrder, for a LIMIT order with a parseable positive price,
\* puts a message in its errors list for a rule if and only if that rule is
\* violated (quantity < minQty, quantity * price < minNotional, quantity
\* decimal places > basePrecision, price decimal places > pricePrecision,
\* a precision of 0 included), and valid is true exactly when none is.
C24_ErrorsIffViolated ==
    LimitValidated =>
        LET errors == validated.result.errors IN
        /\ {errors[i] : i \in 1..Len(errors)} = ViolatedRules
        /\ validated.result.valid <=> ViolatedRules = {}

\* the properties of an object that have a value
Present(obj) ==
    IF obj = Null THEN {}
    ELSE {obj.props[i] : i \in {j \in 1..Len(obj.props) : obj.props[j].value # Undef}}

\* key=value of the present query parameters, taken key by key in key order
RECURSIVE Canonical(_, _)
Canonical(keys, present) ==
    IF keys = <<>> THEN <<>>
    ELSE LET here == {p \in present : p.key = Head(keys)}
             rest == Canonical(Tail(keys), present)
         IN IF here = {} THEN rest
            ELSE LET p == CHOOSE q \in here : TRUE
                 IN <<p.key, "=", p.value.s>>
                        \o (IF rest = <<>> THEN <<>> ELSE <<"&">> \o rest)

\* the string that is to be signed for the call under examination
SigningString ==
    <<"validate-algorithms", "=", "HmacSHA256", "&",
      "validate-appkey", "=", signed.apiKey, "&",
      "validate-recvwindow", "=", "60000", "&",
      "validate-timestamp", "=", signed.now,
      "#", signed.method, "#", signed.path>>
        \o (IF Present(signed.query) = {} THEN <<>>
            ELSE <<"#">> \o Canonical(<<"bizType", "orderId", "symbol">>, Present(signed.query)))
        \o (IF Present(signed.body) = {} THEN <<>>
            ELSE <<"#">> \o JSONStringify(signed.body))

\* C25: the string makeRequest signs is X + Y, X the four validate-* pairs
\* joined with '&' and Y = '#' method '#' path queryStr bodyStr, queryStr
\* being '#' and the non-undefined query parameters sorted by key (empty when
\* there is none) and bodyStr '#' and the JSON body (empty when the body has
\* no non-undefined key); the signature is a function of the call's inputs,
\* and the five validate-* headers are the ones sent.
C25_SigningString ==
    signed.called =>
        /\ signed.request.signing = SigningString
        /\ DOMAIN signed.request.headers =
              {"validate-algorithms", "validate-appkey", "validate-recvwindow",
               "validate-timestamp", "validate-signature"}
        /\ signed.request.headers["validate-algorithms"] = "HmacSHA256"
        /\ signed.request.headers["validate-appkey"] = signed.apiKey
        /\ signed.request.headers["validate-recvwindow"] = "60000"
        /\ signed.request.headers["validate-timestamp"] = signed.now
        /\ signed.request.headers["validate-signature"] =
              createHmac(signed.secretKey, SigningString)

\* a request was signed whose query names two parameters out of key order
\* and whose body has nothing but an undefined value
C25_Witness ==
    /\ signed.called
    /\ signed.query = Object(<<[key |-> "symbol", value |-> Str("a")],
                               [key |-> "bizType", value |-> Str("a")]>>)
    /\ signed.body = Object(<<[key |-> "orderId", value |-> Undef]>>)
    /\ signed.request.signing = SigningString

\* the request was served by XT's placeBuyOrder or placeSellOrder
XtPlaced ==
    /\ pc = "done"
    /\ \E i \in 1..Len(calls) :
          calls[i].service = "xt" /\ calls[i].method \in PlaceMethods

\* the XT account cannot pay for the order of the request
XtInsufficient ==
    LET side == IF \E i \in 1..Len(calls) : calls[i].method = "placeSellOrder"
                THEN "SELL" ELSE "BUY"
        order == XtOrderParams(side, req.quantity, DefaultTo(req.price, Null),
                               DefaultTo(req.type, Str("LIMIT")), NoCreds)
    IN \/ env.balance["xt"].outcome # "ok"
       \/ ~Ge(Num(AvailableOf(env.balance["xt"].raw, CurrencyFor(order))),
              RequiredFor(order))

\* C26: within one XT placeBuyOrder / placeSellOrder call the remote calls
\* are the symbols lookup, then the balance fetch, then the order POST, the
\* symbols lookup made exactly once by the call itself; a failed lookup or
\* a failed validation prevents the balance fetch and the POST, and an
\* insufficient balance prevents the POST.
C26_RemoteOrder ==
    XtPlaced =>
        /\ trace \in {<<"symbols">>, <<"symbols", "balance">>,
                      <<"symbols", "balance", "order">>}
        /\ (env.symbols # "ok" \/ res.error = Str("Order validation failed"))
              => trace = <<"symbols">>
        /\ XtInsufficient => trace # <<"symbols", "balance", "order">>

\* the exchanges whose getPortfolio is due for the request, in the handler's order
Due == SelectSeq(Exchanges, LAMBDA x : Attempted(x))

\* C27: during one combined-portfolio request each exchange with complete
\* credentials has its getPortfolio invoked exactly once, in the fixed order
\* XT, Bybit, Binance, KuCoin, Bitget, one after the other; the failure of
\* one exchange is recorded as that exchange's error and does not prevent
\* the calls to the later exchanges.
C27_SequentialOnce ==
    CombinedAnswered =>
        /\ Len(calls) = Len(Due)
        /\ \A i \in 1..Len(calls) :
              calls[i].service = Due[i] /\ calls[i].method = "getPortfolio"
        /\ \A x \in ExchangeNames : Failed(x) => InErrors(x)

\* XT failed first and the four later exchanges were still asked, Bitget
\* last and with success
C27_Witness ==
    /\ CombinedAnswered
    /\ Len(calls) = 5
    /\ Failed("xt") /\ InErrors("xt")
    /\ calls[5].service = "bitget" /\ Succeeded("bitget") /\ Aggregated("bitget")

\* the balance fetch of the XT balance check was made and failed
XtFetchFailed ==
    /\ XtPlaced
    /\ \E i \in 1..Len(trace) : trace[i] = "balance"
    /\ env.balance["xt"].outcome # "ok"

\* C28: if the balance fetch of the XT balance check fails during
\* placeBuyOrder or placeSellOrder (a non-success code or an exception), no
\* order is POSTed and the call returns success:false: a failed fetch is
\* never taken for a sufficient balance.
C28_FailedFetchBlocks ==
    XtFetchFailed =>
        /\ XtSubmitted = {}
        /\ trace = <<"symbols", "balance">>
        /\ ~res.success
        /\ res.error = Str("Insufficient balance")

\* a valid XT sell order whose balance fetch raised an exception was refused
C28_Witness ==
    /\ XtFetchFailed
    /\ env.balance["xt"].outcome = "exception"
    /\ \E i \in 1..Len(calls) : calls[i].method = "placeSellOrder"
    /\ XtSubmitted = {}
    /\ ~res.success

====
